---- MODULE Spec2Model ----
(***************************************************************************)
(* A model of the OBSIDIAN security core (Aegis-9): SecurityCore           *)
(* (protect_data / unprotect_data), EncryptionEngine, CanaryTokenManager,  *)
(* DataFragmenter and the key validation and fingerprint of                *)
(* ECCHardwareManager.                                                     *)
(*                                                                         *)
(* Bytes.  A byte is a record [v, ks]: v is its concrete value 0..255 and  *)
(* ks a set of keystream atoms XORed into it.  XOR adds the v parts        *)
(* bitwise and takes the symmetric difference of the ks parts, so a        *)
(* keystream byte cancels only against itself.  A plain byte has ks = {}.  *)
(*                                                                         *)
(* Digests.  SHA-256, SHA-512 and HMAC-SHA512 are ideal: a digest is equal *)
(* to another one exactly when algorithm, key and input are equal.  The    *)
(* first byte of a digest names (algorithm, key, input); the other bytes   *)
(* name the algorithm and their position, so a digest and every non-empty  *)
(* prefix of it identify the input, and each byte can be changed alone.    *)
(* Keystream blocks are used byte by byte, so each keystream byte names    *)
(* (key, block input, position) in full.                                   *)
(***************************************************************************)
EXTENDS Integers, Sequences, FiniteSets, TLC

VARIABLES pc, args, work, store, log, result

vars == <<pc, args, work, store, log, result>>

(***************************************************************************)
(* Program constants                                                       *)
(***************************************************************************)
key_size == 32
nonce_size == 16
hmac_size == 64
token_size == 16
num_tokens == 3
fragment_b_size == 32
fingerprint_chars == 16
sha256_size == 32
sha512_size == 64

(***************************************************************************)
(* Bounds of the model                                                     *)
(***************************************************************************)
NumNonces == 2
NumTokenSeeds == 1
\* bytes of the longest plaintext beyond one keystream block
BlockOverrun == 1
\* encrypt calls in a row
MaxEncryptCalls == 3
\* the longest data given to inject_tokens, besides the data of its self-test
MaxDataLen == 7
\* the longest FragmentA given to the fragmenter
MaxFragLen == 3

None == [none |-> TRUE]

\* the key of an unkeyed hash
NoKey == <<>>

(***************************************************************************)
(* Bytes and byte strings                                                  *)
(***************************************************************************)
B(x) == [v |-> x, ks |-> {}]

Plain(s) == [i \in 1..Len(s) |-> B(s[i])]

Rep(n, x) == [i \in 1..n |-> x]

RECURSIVE XorBits(_, _, _)
XorBits(a, b, n) ==
    IF n = 0 THEN 0
    ELSE (((a % 2) + (b % 2)) % 2) + 2 * XorBits(a \div 2, b \div 2, n - 1)

\* byte ^ byte
Xor(a, b) ==
    [v |-> XorBits(a.v, b.v, 8), ks |-> (a.ks \ b.ks) \cup (b.ks \ a.ks)]

\* bin(b).count('1')
RECURSIVE PopCount(_)
PopCount(b) == IF b = 0 THEN 0 ELSE (b % 2) + PopCount(b \div 2)

RECURSIVE SumBits(_)
SumBits(s) == IF s = <<>> THEN 0 ELSE PopCount(Head(s)) + SumBits(Tail(s))

\* s[a:b] of Python, 0-based, a and b clipped to the length of s
Slice(s, a, b) ==
    LET lo == IF a > Len(s) THEN Len(s) ELSE a
        hi == IF b > Len(s) THEN Len(s) ELSE b
    IN  IF hi <= lo THEN <<>> ELSE SubSeq(s, lo + 1, hi)

(***************************************************************************)
(* Ideal digests                                                           *)
(***************************************************************************)
Digest(alg, key, input, n) ==
    [j \in 1..n |->
        IF j = 1 THEN [v |-> 0, ks |-> {[alg |-> alg, key |-> key, input |-> input, pos |-> 1]}]
        ELSE [v |-> 0, ks |-> {[alg |-> alg, key |-> NoKey, input |-> <<>>, pos |-> j]}]]

Sha256(input) == Digest("sha256", NoKey, input, sha256_size)

Sha512(input) == Digest("sha512", NoKey, input, sha512_size)

\* bytes.hex() / hexdigest(): two hexadecimal characters per byte
Hex(bytes) ==
    [i \in 1..(2 * Len(bytes)) |->
        [nibble |-> IF i % 2 = 1 THEN "hi" ELSE "lo", of |-> bytes[(i + 1) \div 2]]]

(***************************************************************************)
(* Hardware keys.  The calls draw their keys from KeyNames; KeyBytes gives *)
(* the bytes of each.                                                      *)
(***************************************************************************)
KeyNames == {"K11", "K22", "K33", "K10", "KBit", "KFF", "KZero", "KShort", "KLong"}

KeyBytes(k) ==
    CASE k = "K11"    -> Rep(32, 17)                                 \* 0x11 * 32
      [] k = "K22"    -> Rep(32, 34)                                 \* 0x22 * 32
      [] k = "K33"    -> Rep(32, 51)                                 \* 0x33 * 32
      [] k = "K10"    -> <<16>> \o Rep(31, 17)                       \* K11 with one bit cleared
      [] k = "KBit"   -> <<1>> \o Rep(31, 0)                         \* one bit set
      [] k = "KFF"    -> Rep(32, 255)                                \* every bit set
      [] k = "KZero"  -> Rep(32, 0)
      [] k = "KShort" -> Rep(31, 17)
      [] k = "KLong"  -> Rep(33, 17)

\* SecurityCore._validate_hardware_keys: the error raised, or None
BadKeyLength(ic_key, phone_key) ==
    Len(ic_key) # key_size \/ Len(phone_key) # key_size

\* mutant: only the IC key is compared with zero
BadKeyZero_IcOnly(ic_key, phone_key) ==
    ic_key = Rep(32, 0)

BadKeyZero(ic_key, phone_key) ==
    ic_key = Rep(32, 0) \/ phone_key = Rep(32, 0)

\* mutant: the entropy bound of ECCHardwareManager.validate_hardware_keys is applied too
_validate_hardware_keys_Entropy(ic_key, phone_key) ==
    IF BadKeyLength(ic_key, phone_key) THEN "InvalidKeyMaterial"
    ELSE IF BadKeyZero(ic_key, phone_key) THEN "InvalidKeyMaterial"
    ELSE IF 10 * SumBits(ic_key) < 3 * 256 \/ 10 * SumBits(ic_key) > 7 * 256 THEN "InvalidKeyMaterial"
    ELSE IF 10 * SumBits(phone_key) < 3 * 256 \/ 10 * SumBits(phone_key) > 7 * 256 THEN "InvalidKeyMaterial"
    ELSE "ok"

_validate_hardware_keys(ic_key, phone_key) ==
    IF BadKeyLength(ic_key, phone_key) THEN "InvalidKeyMaterial"
    ELSE IF BadKeyZero(ic_key, phone_key) THEN "InvalidKeyMaterial"
    ELSE "ok"

\* ECCHardwareManager.validate_hardware_keys: the (is_valid) it returns.
\* entropy = set bits / 256; entropy < 0.3 or > 0.7 is compared exactly:
\* bits / 256 < 0.3  <=>  10 * bits < 768,   bits / 256 > 0.7  <=>  10 * bits > 1792
EntropyOutOfBounds(key) ==
    10 * SumBits(key) < 3 * 256 \/ 10 * SumBits(key) > 7 * 256

validate_hardware_keys(ic_key, phone_key) ==
    IF Len(ic_key) # 32 \/ Len(phone_key) # 32 THEN FALSE
    ELSE IF ic_key = Rep(32, 0) \/ phone_key = Rep(32, 0) THEN FALSE
    ELSE IF EntropyOutOfBounds(ic_key) THEN FALSE
    ELSE IF EntropyOutOfBounds(phone_key) THEN FALSE
    ELSE TRUE

\* mutant: the fingerprint covers the phone key only
generate_key_fingerprint_PhoneOnly(ic_key, phone_key) ==
    Slice(Hex(Sha256(Plain(phone_key))), 0, fingerprint_chars)

\* ECCHardwareManager.generate_key_fingerprint: sha256(ic_key + phone_key).hexdigest()[:16]
generate_key_fingerprint(ic_key, phone_key) ==
    Slice(Hex(Sha256(Plain(ic_key \o phone_key))), 0, fingerprint_chars)

(***************************************************************************)
(* EncryptionEngine                                                        *)
(***************************************************************************)
\* block_input = nonce + counter.to_bytes(8, 'big'): the pair names it
BlockInput(nonce, counter) == <<nonce, counter>>

\* hmac.new(key, block_input, sha512).digest()[pos - 1] of one keystream block
KeystreamByte(key, nonce, counter, pos) ==
    [v |-> 0,
     ks |-> {[alg |-> "hmac-sha512", key |-> key,
              input |-> BlockInput(nonce, counter), pos |-> pos]}]

\* blocks of hmac_size bytes for counter = 0, 1, ... until length bytes are there,
\* cut to keystream[:length]
_generate_keystream(key, nonce, length) ==
    [i \in 1..length |->
        KeystreamByte(key, nonce, (i - 1) \div sha512_size, ((i - 1) % sha512_size) + 1)]

_aes_ctr_encrypt(data, key, nonce) ==
    LET keystream == _generate_keystream(key, nonce, Len(data))
    IN  [i \in 1..Len(data) |-> Xor(data[i], keystream[i])]

\* mutant: the ciphertext is handed back as it is
_aes_ctr_decrypt_Identity(data, key, nonce) == data

_aes_ctr_decrypt(data, key, nonce) == _aes_ctr_encrypt(data, key, nonce)

\* mutant: the tag is a plain hash of the data, the key is left out
_compute_hmac_Unkeyed(data, key) == Digest("hmac-sha512", NoKey, data, hmac_size)

_compute_hmac(data, key) == Digest("hmac-sha512", key, data, hmac_size)

\* mutant: the tag is only checked for its length
_verify_hmac_LengthOnly(data, key, tag) == Len(tag) = hmac_size

_verify_hmac(data, key, tag) == _compute_hmac(data, key) = tag

\* mutant: the tag is computed over the nonce and the ciphertext
encrypt_TagOverNonce(plaintext, encryption_key, authentication_key, nonce) ==
    LET ciphertext == _aes_ctr_encrypt(plaintext, encryption_key, nonce)
    IN  [ciphertext |-> ciphertext, nonce |-> nonce,
         hmac_tag |-> _compute_hmac(nonce \o ciphertext, authentication_key)]

\* encrypt with the nonce drawn by secrets.token_bytes or given by the caller
encrypt(plaintext, encryption_key, authentication_key, nonce) ==
    LET ciphertext == _aes_ctr_encrypt(plaintext, encryption_key, nonce)
    IN  [ciphertext |-> ciphertext, nonce |-> nonce,
         hmac_tag |-> _compute_hmac(ciphertext, authentication_key)]

\* an optional argument that was given (None when it was not)
Some(x) == [none |-> FALSE, value |-> x]

\* mutant: the nonce of the caller is ignored
ChooseNonce_Drawn(nonce, drawn) == drawn

\* if nonce is None: nonce = secrets.token_bytes(self.nonce_size), drawn the
\* value the generator gives
ChooseNonce(nonce, drawn) == IF nonce.none THEN drawn ELSE nonce.value

\* encrypt as the caller sees it: nonce is None or Some(bytes)
encrypt_call(plaintext, encryption_key, authentication_key, nonce, drawn) ==
    encrypt(plaintext, encryption_key, authentication_key, ChooseNonce(nonce, drawn))

\* decrypt: the error raised, or the plaintext returned
decrypt(ciphertext, encryption_key, authentication_key, nonce, hmac_tag) ==
    IF ~_verify_hmac(ciphertext, authentication_key, hmac_tag)
    THEN [error |-> "AuthenticationFailure"]
    ELSE [value |-> _aes_ctr_decrypt(ciphertext, encryption_key, nonce)]

(***************************************************************************)
(* CanaryTokenManager                                                      *)
(***************************************************************************)
RECURSIVE Join(_)
Join(ss) == IF ss = <<>> THEN <<>> ELSE Head(ss) \o Join(Tail(ss))

\* mutant: the last chunk does not take the remainder
inject_tokens_NoRemainder(data, canaries) ==
    LET chunk_size == Len(data) \div num_tokens
        chunks == [i \in 1..num_tokens |->
                    Slice(data, (i - 1) * chunk_size, (i - 1) * chunk_size + chunk_size)]
    IN  [marked |-> Join([i \in 1..num_tokens |-> chunks[i] \o canaries[i]]),
         verification |-> Sha256(Join(canaries))]

\* inject_tokens, with canaries the tokens drawn by secrets.token_bytes
inject_tokens(data, canaries) ==
    LET chunk_size == Len(data) \div num_tokens
        chunks == [i \in 1..num_tokens |->
                    IF i = num_tokens
                    THEN Slice(data, (i - 1) * chunk_size, Len(data))
                    ELSE Slice(data, (i - 1) * chunk_size, (i - 1) * chunk_size + chunk_size)]
    IN  [marked |-> Join([i \in 1..num_tokens |-> chunks[i] \o canaries[i]]),
         verification |-> Sha256(Join(canaries))]

\* the offset of chunk i (1-based) in the marked data, as the loop advances it
ChunkOffset(i, chunk_size) == (i - 1) * (chunk_size + token_size)

\* mutant: the last chunk is cut to chunk_size like the others
ExtractChunks_EqualChunks(data_with_canaries, original_length) ==
    LET chunk_size == original_length \div num_tokens
    IN  [i \in 1..num_tokens |->
            Slice(data_with_canaries, ChunkOffset(i, chunk_size),
                  ChunkOffset(i, chunk_size) + chunk_size)]

ExtractChunks(data_with_canaries, original_length) ==
    LET chunk_size == original_length \div num_tokens
        remaining == original_length - (chunk_size * (num_tokens - 1))
    IN  [i \in 1..num_tokens |->
            LET offset == ChunkOffset(i, chunk_size)
            IN  IF i = num_tokens
                THEN Slice(data_with_canaries, offset, offset + remaining)
                ELSE Slice(data_with_canaries, offset, offset + chunk_size)]

ExtractCanaries(data_with_canaries, original_length) ==
    LET chunk_size == original_length \div num_tokens
        remaining == original_length - (chunk_size * (num_tokens - 1))
    IN  [i \in 1..num_tokens |->
            LET offset == ChunkOffset(i, chunk_size)
                          + (IF i = num_tokens THEN remaining ELSE chunk_size)
            IN  Slice(data_with_canaries, offset, offset + token_size)]

\* mutant: the verification hash is not compared
CanariesVerified_Skip(data_with_canaries, verification, original_length) == TRUE

CanariesVerified(data_with_canaries, verification, original_length) ==
    Sha256(Join(ExtractCanaries(data_with_canaries, original_length))) = verification

\* verify_and_extract: the error raised, or the data returned
verify_and_extract(data_with_canaries, verification, original_length) ==
    IF ~CanariesVerified(data_with_canaries, verification, original_length)
    THEN [error |-> "TamperDetected"]
    ELSE [value |-> Join(ExtractChunks(data_with_canaries, original_length))]

(***************************************************************************)
(* DataFragmenter                                                          *)
(***************************************************************************)
\* mutant: the phone key is left out of the binding data
create_fragment_b_NoPhone(fragment_a, ic_key, phone_key) ==
    LET binding_data == Sha512(fragment_a) \o Sha512(Plain(ic_key))
    IN  Slice(Sha512(binding_data), 0, fragment_b_size)

\* mutant: the digest is not cut to fragment_b_size
create_fragment_b_Untruncated(fragment_a, ic_key, phone_key) ==
    LET binding_data == Sha512(fragment_a) \o Sha512(Plain(ic_key)) \o Sha512(Plain(phone_key))
    IN  Sha512(binding_data)

create_fragment_b(fragment_a, ic_key, phone_key) ==
    LET binding_data == Sha512(fragment_a) \o Sha512(Plain(ic_key)) \o Sha512(Plain(phone_key))
    IN  Slice(Sha512(binding_data), 0, fragment_b_size)

\* mutant: only as many bytes as fragment_b has are compared
verify_fragment_binding_Prefix(fragment_a, fragment_b, ic_key, phone_key) ==
    fragment_b = Slice(create_fragment_b(fragment_a, ic_key, phone_key), 0, Len(fragment_b))

verify_fragment_binding(fragment_a, fragment_b, ic_key, phone_key) ==
    fragment_b = create_fragment_b(fragment_a, ic_key, phone_key)

\* mutant: the two hashes are combined byte by byte with ^, not joined
compute_merkle_root_Xor(fragment_a, fragment_b) ==
    LET hash_a == Sha512(fragment_a)
        hash_b == Sha512(fragment_b)
        first_hash == Sha512([i \in 1..sha512_size |-> Xor(hash_a[i], hash_b[i])])
    IN  Hex(Sha512(first_hash))

compute_merkle_root(fragment_a, fragment_b) ==
    LET hash_a == Sha512(fragment_a)
        hash_b == Sha512(fragment_b)
        first_hash == Sha512(hash_a \o hash_b)
    IN  Hex(Sha512(first_hash))

\* mutant: the expected root is only checked for its length
verify_merkle_root_LengthOnly(fragment_a, fragment_b, expected_root) ==
    Len(expected_root) = Len(compute_merkle_root(fragment_a, fragment_b))

verify_merkle_root(fragment_a, fragment_b, expected_root) ==
    compute_merkle_root(fragment_a, fragment_b) = expected_root

(***************************************************************************)
(* IntegrityChecker of the storage package: the same root, compared with   *)
(* hmac.compare_digest, which takes two str only when both are ASCII       *)
(***************************************************************************)
IsAscii(text) == \A i \in 1..Len(text) : text[i].nibble # "non-ascii"

IntegrityChecker_compute_merkle_root(fragment_a, fragment_b) ==
    LET hash_a == Sha512(fragment_a)
        hash_b == Sha512(fragment_b)
        combined == hash_a \o hash_b
        first_hash == Sha512(combined)
    IN  Hex(Sha512(first_hash))

\* the error raised, or the boolean returned
IntegrityChecker_verify_merkle_root(fragment_a, fragment_b, expected_root) ==
    LET computed_root == IntegrityChecker_compute_merkle_root(fragment_a, fragment_b)
    IN  IF ~IsAscii(expected_root)
        THEN [error |-> "TypeError"]
        ELSE [value |-> (computed_root = expected_root)]

(***************************************************************************)
(* SecurityCore.verify_integrity: the commitment is computed again from    *)
(* the two fragments and compared; the metadata and the keys take no part  *)
(***************************************************************************)
verify_integrity(fragment_a, fragment_b, merkle_root, metadata) ==
    verify_merkle_root(fragment_a, fragment_b, merkle_root)

(***************************************************************************)
(* Records and their canonical byte form.  A record is a sequence of       *)
(* fields <<key, value>>, both strings (sequences of character codes).     *)
(* The byte form of a field is len(key), key, len(value), value.           *)
(***************************************************************************)
ScenarioRecord ==
    << << <<110, 97, 109, 101>>, <<65, 104, 109, 97, 100>> >>,     \* "name": "Ahmad"
       << <<105, 99>>, <<49, 50, 51>> >> >>                         \* "ic": "123"

SmallRecord == << << <<97>>, <<98>> >> >>                           \* "a": "b"

EmptyRecord == <<>>

Records == {ScenarioRecord, SmallRecord, EmptyRecord}

RECURSIVE SerializeInts(_)
SerializeInts(record) ==
    IF record = <<>> THEN <<>>
    ELSE LET f == Head(record)
         IN  <<Len(f[1])>> \o f[1] \o <<Len(f[2])>> \o f[2] \o SerializeInts(Tail(record))

Serialize(record) == Plain(SerializeInts(record))

\* parse the byte form back: [ok, fields]
RECURSIVE ParseFields(_)
ParseFields(s) ==
    IF s = <<>> THEN [ok |-> TRUE, fields |-> <<>>]
    ELSE LET n == s[1]
         IN  IF Len(s) < n + 2 THEN [ok |-> FALSE, fields |-> <<>>]
             ELSE LET m == s[n + 2]
                  IN  IF Len(s) < n + m + 2 THEN [ok |-> FALSE, fields |-> <<>>]
                      ELSE LET rest == ParseFields(SubSeq(s, n + m + 3, Len(s)))
                           IN  [ok |-> rest.ok,
                                fields |-> << <<SubSeq(s, 2, n + 1), SubSeq(s, n + 3, n + m + 2)>> >>
                                           \o rest.fields]

\* bytes that still carry keystream are not the byte form of any record
Deserialize(bytes) ==
    IF \E i \in 1..Len(bytes) : bytes[i].ks # {}
    THEN [error |-> "CorruptedPayload"]
    ELSE LET parsed == ParseFields([i \in 1..Len(bytes) |-> bytes[i].v])
         IN  IF parsed.ok THEN [value |-> parsed.fields] ELSE [error |-> "CorruptedPayload"]

(***************************************************************************)
(* The pipeline behind protect_data and unprotect_data                     *)
(* (split_into_fragments_advanced, reconstruct_data_advanced)              *)
(***************************************************************************)
\* the fixed convention: the encryption key comes from the IC key, the
\* authentication key from the phone key; a derived key is named by its purpose
\* and the name of the hardware key it comes from
EncryptionKey(ic) == [kdf |-> "enc", ikm |-> ic]

AuthenticationKey(ph) == [kdf |-> "mac", ikm |-> ph]

\* FragmentA = nonce || tag || ciphertext
SplitFragmentA(enc) == enc.nonce \o enc.hmac_tag \o enc.ciphertext

ParseFragmentA(fragment_a) ==
    [nonce |-> Slice(fragment_a, 0, nonce_size),
     hmac_tag |-> Slice(fragment_a, nonce_size, nonce_size + hmac_size),
     ciphertext |-> Slice(fragment_a, nonce_size + hmac_size, Len(fragment_a))]

\* the random draws
Nonce(n) == Plain(Rep(nonce_size, n))

Canaries(seed) == [i \in 1..num_tokens |-> Plain(Rep(token_size, 16 * seed + i))]

(***************************************************************************)
(* State.  pc is the position of the one call in progress ("idle" between  *)
(* calls), args its arguments, work its local values, log the steps it has *)
(* taken, result what the last finished call returned or raised, and store *)
(* what unprotect_data is later given of the last successful protect: the  *)
(* FragmentA in bulk storage and the metadata, with a note of the record   *)
(* and the keys that were protected.                                       *)
(***************************************************************************)
NoArgs == [op |-> "none", data |-> <<>>, ic_key |-> "", phone_key |-> ""]

NoResult == [op |-> "none", status |-> "none", error |-> "", value |-> None]

NoStore == [present |-> FALSE]

Raised(op, kind) == [op |-> op, status |-> "error", error |-> kind, value |-> None]

Returned(op, value) == [op |-> op, status |-> "ok", error |-> "", value |-> value]

Init ==
    /\ pc = "idle"
    /\ args = NoArgs
    /\ work = None
    /\ store = NoStore
    /\ log = <<>>
    /\ result = NoResult

(***************************************************************************)
(* protect_data                                                            *)
(***************************************************************************)
\* line 74: self._validate_hardware_keys(ic_key, phone_key)
ProtectCall(data, ic, ph) ==
    /\ pc = "idle"
    /\ ~store.present
    /\ args' = [op |-> "protect", data |-> data, ic_key |-> ic, phone_key |-> ph]
    /\ log' = <<"validate_keys">>
    /\ work' = None
    /\ IF _validate_hardware_keys(KeyBytes(ic), KeyBytes(ph)) = "ok"
       THEN pc' = "p_fingerprint" /\ result' = NoResult
       ELSE pc' = "idle" /\ result' = Raised("protect", "InvalidKeyMaterial")
    /\ UNCHANGED store

\* line 77: key_fingerprint = generate_key_fingerprint(ic_key, phone_key)
ProtectFingerprint ==
    /\ pc = "p_fingerprint"
    /\ work' = [key_fingerprint |->
                    generate_key_fingerprint(KeyBytes(args.ic_key), KeyBytes(args.phone_key))]
    /\ log' = Append(log, "fingerprint")
    /\ pc' = "p_raw"
    /\ UNCHANGED <<args, store, result>>

\* split_into_fragments_advanced, RAW: the record in its canonical byte form
ProtectSerialize ==
    /\ pc = "p_raw"
    /\ work' = [key_fingerprint |-> work.key_fingerprint, raw |-> Serialize(args.data)]
    /\ log' = Append(log, "RAW")
    /\ pc' = "p_inject"
    /\ UNCHANGED <<args, store, result>>

\* CANARY_INJECTED: CanaryTokenManager.inject_tokens
ProtectInject(seed) ==
    /\ pc = "p_inject"
    /\ LET inj == inject_tokens(work.raw, Canaries(seed))
       IN  work' = [key_fingerprint |-> work.key_fingerprint,
                    original_size |-> Len(work.raw),
                    marked |-> inj.marked,
                    verification |-> inj.verification]
    /\ log' = Append(log, "CANARY_INJECTED")
    /\ pc' = "p_encrypt"
    /\ UNCHANGED <<args, store, result>>

\* ENCRYPTED: EncryptionEngine.encrypt with a fresh nonce
ProtectEncrypt(n) ==
    /\ pc = "p_encrypt"
    /\ work' = [key_fingerprint |-> work.key_fingerprint,
                original_size |-> work.original_size,
                verification |-> work.verification,
                enc |-> encrypt(work.marked,
                                EncryptionKey(args.ic_key),
                                AuthenticationKey(args.phone_key),
                                Nonce(n))]
    /\ log' = Append(log, "ENCRYPTED")
    /\ pc' = "p_split"
    /\ UNCHANGED <<args, store, result>>

\* FRAGMENTED: FragmentA = nonce || tag || ciphertext
ProtectSplit ==
    /\ pc = "p_split"
    /\ work' = [key_fingerprint |-> work.key_fingerprint,
                original_size |-> work.original_size,
                verification |-> work.verification,
                fragment_a |-> SplitFragmentA(work.enc)]
    /\ log' = Append(log, "FRAGMENTED")
    /\ pc' = "p_bind"
    /\ UNCHANGED <<args, store, result>>

\* BOUND: DataFragmenter.create_fragment_b
ProtectBind ==
    /\ pc = "p_bind"
    /\ work' = [key_fingerprint |-> work.key_fingerprint,
                original_size |-> work.original_size,
                verification |-> work.verification,
                fragment_a |-> work.fragment_a,
                fragment_b |-> create_fragment_b(work.fragment_a,
                                                 KeyBytes(args.ic_key), KeyBytes(args.phone_key))]
    /\ log' = Append(log, "BOUND")
    /\ pc' = "p_commit"
    /\ UNCHANGED <<args, store, result>>

\* COMMITTED: DataFragmenter.compute_merkle_root, and the metadata
ProtectCommit ==
    /\ pc = "p_commit"
    /\ work' = [key_fingerprint |-> work.key_fingerprint,
                fragment_a |-> work.fragment_a,
                fragment_b |-> work.fragment_b,
                merkle_root |-> compute_merkle_root(work.fragment_a, work.fragment_b),
                metadata |-> [algorithm |-> "AES-256-CTR+HMAC-SHA512",
                              canary_count |-> num_tokens,
                              canary_verification |-> work.verification,
                              original_size |-> work.original_size,
                              fragment_a_size |-> Len(work.fragment_a),
                              fragment_b_size |-> Len(work.fragment_b),
                              key_fingerprint |-> None]]
    /\ log' = Append(log, "COMMITTED")
    /\ pc' = "p_return"
    /\ UNCHANGED <<args, store, result>>

\* lines 91-103: metadata.update({... "key_fingerprint": key_fingerprint ...}); return
ProtectOutputs(w) ==
    [fragment_a |-> w.fragment_a,
     fragment_b |-> w.fragment_b,
     merkle_root |-> w.merkle_root,
     metadata |-> [w.metadata EXCEPT !.key_fingerprint = w.key_fingerprint]]

\* mutant: the call returns what it has before the commitment is computed
ProtectReturn_BeforeCommit ==
    /\ pc \in {"p_commit", "p_return"}
    /\ LET w == IF pc = "p_return" THEN work
                ELSE [key_fingerprint |-> work.key_fingerprint,
                      fragment_a |-> work.fragment_a,
                      fragment_b |-> work.fragment_b,
                      merkle_root |-> <<>>,
                      metadata |-> [algorithm |-> "AES-256-CTR+HMAC-SHA512",
                                    canary_count |-> num_tokens,
                                    canary_verification |-> work.verification,
                                    original_size |-> work.original_size,
                                    fragment_a_size |-> Len(work.fragment_a),
                                    fragment_b_size |-> Len(work.fragment_b),
                                    key_fingerprint |-> None]]
       IN  /\ result' = Returned("protect", ProtectOutputs(w))
           /\ store' = [present |-> TRUE, tampered |-> FALSE,
                        fragment_a |-> w.fragment_a,
                        metadata |-> ProtectOutputs(w).metadata,
                        data |-> args.data, ic_key |-> args.ic_key, phone_key |-> args.phone_key]
    /\ log' = Append(log, "return")
    /\ work' = None
    /\ pc' = "idle"
    /\ UNCHANGED args

ProtectReturn ==
    /\ pc = "p_return"
    /\ result' = Returned("protect", ProtectOutputs(work))
    /\ store' = [present |-> TRUE, tampered |-> FALSE,
                 fragment_a |-> work.fragment_a,
                 metadata |-> ProtectOutputs(work).metadata,
                 data |-> args.data, ic_key |-> args.ic_key, phone_key |-> args.phone_key]
    /\ log' = Append(log, "return")
    /\ work' = None
    /\ pc' = "idle"
    /\ UNCHANGED args

(***************************************************************************)
(* unprotect_data, called with the stored fragments and metadata           *)
(***************************************************************************)
\* line 122: self._validate_hardware_keys(ic_key, phone_key)
UnprotectCall(ic, ph) ==
    /\ pc = "idle"
    /\ store.present
    /\ args' = [op |-> "unprotect", data |-> <<>>, ic_key |-> ic, phone_key |-> ph]
    /\ log' = <<"validate_keys">>
    /\ work' = None
    /\ IF _validate_hardware_keys(KeyBytes(ic), KeyBytes(ph)) = "ok"
       THEN pc' = "u_fingerprint" /\ result' = NoResult
       ELSE pc' = "idle" /\ result' = Raised("unprotect", "InvalidKeyMaterial")
    /\ UNCHANGED store

\* mutant: metadata without a key_fingerprint entry passes the gate
FingerprintMatches_MissingPasses(metadata, ic_key, phone_key) ==
    \/ "key_fingerprint" \notin DOMAIN metadata
    \/ metadata.key_fingerprint = generate_key_fingerprint(ic_key, phone_key)

\* lines 125-133: stored_fingerprint = metadata.get("key_fingerprint") is None
\* when the entry is missing; stored_fingerprint != current_fingerprint raises
FingerprintMatches(metadata, ic_key, phone_key) ==
    /\ "key_fingerprint" \in DOMAIN metadata
    /\ metadata.key_fingerprint = generate_key_fingerprint(ic_key, phone_key)

\* mutant: a mismatch is not raised
UnprotectFingerprint_NoGate ==
    /\ pc = "u_fingerprint"
    /\ log' = Append(log, "fingerprint_check")
    /\ pc' = "u_parse"
    /\ UNCHANGED <<args, work, store, result>>

UnprotectFingerprint ==
    /\ pc = "u_fingerprint"
    /\ log' = Append(log, "fingerprint_check")
    /\ IF FingerprintMatches(store.metadata, KeyBytes(args.ic_key), KeyBytes(args.phone_key))
       THEN pc' = "u_parse" /\ result' = result
       ELSE pc' = "idle" /\ result' = Raised("unprotect", "FingerprintMismatch")
    /\ UNCHANGED <<args, work, store>>

\* reconstruct_data_advanced: nonce, tag and ciphertext out of FragmentA
UnprotectParse ==
    /\ pc = "u_parse"
    /\ work' = ParseFragmentA(store.fragment_a)
    /\ log' = Append(log, "parse")
    /\ pc' = "u_verify_hmac"
    /\ UNCHANGED <<args, store, result>>

\* EncryptionEngine.decrypt, lines 77-78: verify the HMAC first
\* mutant: the ciphertext is decrypted whatever the verification says
DecryptVerify_NoRaise ==
    /\ pc = "u_verify_hmac"
    /\ log' = Append(log, "verify_hmac")
    /\ pc' = "u_keystream"
    /\ UNCHANGED <<args, work, store, result>>

DecryptVerify ==
    /\ pc = "u_verify_hmac"
    /\ log' = Append(log, "verify_hmac")
    /\ IF _verify_hmac(work.ciphertext, AuthenticationKey(args.phone_key), work.hmac_tag)
       THEN pc' = "u_keystream" /\ work' = work /\ result' = result
       ELSE pc' = "idle" /\ work' = None
            /\ result' = Raised("unprotect", "AuthenticationFailure")
    /\ UNCHANGED <<args, store>>

\* _aes_ctr_encrypt, line 88: the keystream
DecryptKeystream ==
    /\ pc = "u_keystream"
    /\ work' = [ciphertext |-> work.ciphertext,
                keystream |-> _generate_keystream(EncryptionKey(args.ic_key),
                                                  work.nonce, Len(work.ciphertext))]
    /\ log' = Append(log, "keystream")
    /\ pc' = "u_xor"
    /\ UNCHANGED <<args, store, result>>

\* _aes_ctr_encrypt, lines 90-94: byte ^ keystream[i]
DecryptXor ==
    /\ pc = "u_xor"
    /\ work' = [plaintext |->
                    [i \in 1..Len(work.ciphertext) |-> Xor(work.ciphertext[i], work.keystream[i])]]
    /\ log' = Append(log, "xor")
    /\ pc' = "u_canary"
    /\ UNCHANGED <<args, store, result>>

\* CanaryTokenManager.verify_and_extract
UnprotectCanary ==
    /\ pc = "u_canary"
    /\ log' = Append(log, "verify_canary")
    /\ LET r == verify_and_extract(work.plaintext, store.metadata.canary_verification,
                                   store.metadata.original_size)
       IN  IF "error" \in DOMAIN r
           THEN pc' = "idle" /\ work' = None /\ result' = Raised("unprotect", r.error)
           ELSE pc' = "u_deserialize" /\ work' = [data |-> r.value] /\ result' = result
    /\ UNCHANGED <<args, store>>

\* the bytes back to a record
UnprotectDeserialize ==
    /\ pc = "u_deserialize"
    /\ log' = Append(log, "deserialize")
    /\ LET r == Deserialize(work.data)
       IN  IF "error" \in DOMAIN r
           THEN pc' = "idle" /\ work' = None /\ result' = Raised("unprotect", r.error)
           ELSE pc' = "u_return" /\ work' = [record |-> r.value] /\ result' = result
    /\ UNCHANGED <<args, store>>

\* line 151: return data
UnprotectReturn ==
    /\ pc = "u_return"
    /\ result' = Returned("unprotect", work.record)
    /\ log' = Append(log, "return")
    /\ work' = None
    /\ pc' = "idle"
    /\ UNCHANGED <<args, store>>

(***************************************************************************)
(* The environment: one byte of the stored FragmentA is changed            *)
(***************************************************************************)
Deltas == {1, 255}

Tamper(i, delta) ==
    /\ pc = "idle"
    /\ store.present
    /\ ~store.tampered
    /\ i \in 1..Len(store.fragment_a)
    /\ store' = [store EXCEPT !.tampered = TRUE,
                              !.fragment_a[i] = Xor(@, B(delta))]
    /\ UNCHANGED <<pc, args, work, log, result>>

(***************************************************************************)
(* Specifications.  A run is one protect call and then one unprotect call  *)
(* on what it stored: the core keeps no state between calls, so longer     *)
(* runs repeat these.                                                      *)
(***************************************************************************)
ProtectSteps ==
    \/ ProtectFingerprint
    \/ ProtectSerialize
    \/ \E seed \in 1..NumTokenSeeds : ProtectInject(seed)
    \/ \E n \in 1..NumNonces : ProtectEncrypt(n)
    \/ ProtectSplit
    \/ ProtectBind
    \/ ProtectCommit
    \/ ProtectReturn

UnprotectSteps ==
    \/ UnprotectFingerprint
    \/ UnprotectParse
    \/ DecryptVerify
    \/ DecryptKeystream
    \/ DecryptXor
    \/ UnprotectCanary
    \/ UnprotectDeserialize
    \/ UnprotectReturn

\* Spec: the record is protected under any two keys, and unprotect is called
\* with the same keys or with one of them replaced; FragmentA is left alone
Next ==
    \/ \E d \in Records, ic \in KeyNames, ph \in KeyNames :
          /\ result.op = "none"
          /\ ProtectCall(d, ic, ph)
    \/ ProtectSteps
    \/ \E ic \in KeyNames, ph \in KeyNames :
          /\ result.op = "protect"
          /\ store.present
          /\ ic = store.ic_key \/ ph = store.phone_key
          /\ UnprotectCall(ic, ph)
    \/ UnprotectSteps

Spec == Init /\ [][Next]_vars

\* SpecTamper: the record is protected under the keys of the scenarios, one
\* byte of FragmentA, at any position, may be changed, and unprotect is called
\* with the same keys or with another phone key
TamperPhoneKeys == {"K22", "K33"}

NextTamper ==
    \/ \E d \in Records :
          /\ result.op = "none"
          /\ ProtectCall(d, "K11", "K22")
    \/ ProtectSteps
    \/ /\ store.present
       /\ result.op = "protect"
       /\ \E i \in 1..Len(store.fragment_a), delta \in Deltas : Tamper(i, delta)
    \/ \E ph \in TamperPhoneKeys :
          /\ result.op = "protect"
          /\ store.present
          /\ UnprotectCall(store.ic_key, ph)
    \/ UnprotectSteps

SpecTamper == Init /\ [][NextTamper]_vars

(***************************************************************************)
(* Properties                                                              *)
(***************************************************************************)
Finished(op) == pc = "idle" /\ result.op = op

SameKeys == args.ic_key = store.ic_key /\ args.phone_key = store.phone_key

IsPrefix(a, b) == Len(a) <= Len(b) /\ SubSeq(b, 1, Len(a)) = a

InLog(step) == \E i \in 1..Len(log) : log[i] = step

ProtectOrder ==
    <<"validate_keys", "fingerprint", "RAW", "CANARY_INJECTED", "ENCRYPTED",
      "FRAGMENTED", "BOUND", "COMMITTED", "return">>

UnprotectOrder ==
    <<"validate_keys", "fingerprint_check", "parse", "verify_hmac", "keystream",
      "xor", "verify_canary", "deserialize", "return">>

\* the three checks of unprotect, recomputed from the call's inputs
FingerprintOK ==
    store.metadata.key_fingerprint
        = Slice(Hex(Sha256(Plain(KeyBytes(args.ic_key) \o KeyBytes(args.phone_key)))), 0, 16)

MacOK ==
    LET f == ParseFragmentA(store.fragment_a)
    IN  _compute_hmac(f.ciphertext, AuthenticationKey(args.phone_key)) = f.hmac_tag

CanaryOK ==
    LET f == ParseFragmentA(store.fragment_a)
        plaintext == _aes_ctr_decrypt(f.ciphertext, EncryptionKey(args.ic_key), f.nonce)
    IN  Sha256(Join(ExtractCanaries(plaintext, store.metadata.original_size)))
            = store.metadata.canary_verification

\* C1: unprotect of the untouched outputs of protect, with the same two keys,
\* returns the record that was protected.
C1_RoundTrip ==
    (Finished("unprotect") /\ SameKeys /\ ~store.tampered)
        => (result.status = "ok" /\ result.value = store.data)

C1_Witness ==
    /\ Finished("unprotect") /\ SameKeys /\ ~store.tampered
    /\ store.data = SmallRecord
    /\ result.value = SmallRecord

\* C2: after any single byte of FragmentA is changed, unprotect with the same
\* keys fails with AuthenticationFailure or TamperDetected; no record is returned.
C2_TamperSensitivity ==
    (Finished("unprotect") /\ SameKeys /\ store.tampered)
        => /\ result.status = "error"
           /\ result.error \in {"AuthenticationFailure", "TamperDetected"}
           /\ result.value = None

C2_Witness ==
    /\ Finished("unprotect") /\ SameKeys /\ store.tampered
    /\ result.error = "TamperDetected"

\* C3 as claimed: unprotect with a key that differs from the original fails with
\* FingerprintMismatch or AuthenticationFailure and with nothing else.
C3_KeySensitivity_Claimed ==
    (Finished("unprotect") /\ ~SameKeys)
        => /\ result.status = "error"
           /\ result.error \in {"FingerprintMismatch", "AuthenticationFailure"}

\* C3 amended: unprotect with a key that differs from the original returns no
\* record; it fails with InvalidKeyMaterial when the changed key is not 32 bytes
\* or is all zero, and with FingerprintMismatch or AuthenticationFailure otherwise.
C3_KeySensitivity ==
    (Finished("unprotect") /\ ~SameKeys)
        => /\ result.status = "error"
           /\ result.value = None
           /\ IF \E k \in {args.ic_key, args.phone_key} :
                    Len(KeyBytes(k)) # 32 \/ \A i \in 1..Len(KeyBytes(k)) : KeyBytes(k)[i] = 0
              THEN result.error = "InvalidKeyMaterial"
              ELSE result.error \in {"FingerprintMismatch", "AuthenticationFailure"}

\* Scenario C: protected under 0x11.. and 0x22.., unprotect with 0x22.. replaced by 0x33..
C3_Witness ==
    /\ Finished("unprotect")
    /\ store.ic_key = "K11" /\ store.phone_key = "K22"
    /\ args.ic_key = "K11" /\ args.phone_key = "K33"
    /\ result.error = "FingerprintMismatch"

\* C4: in unprotect no step after the fingerprint gate (parsing FragmentA, MAC
\* verification, keystream, XOR, canary extraction, deserialization) is taken
\* unless the fingerprint was compared before it and matched; a call that fails
\* with FingerprintMismatch has taken none of them.
C4_FingerprintGate ==
    args.op = "unprotect"
        => /\ \A i \in 1..Len(log) :
                log[i] \in {"parse", "verify_hmac", "keystream", "xor", "verify_canary", "deserialize"}
                    => /\ \E j \in 1..(i - 1) : log[j] = "fingerprint_check"
                       /\ FingerprintOK
           /\ result.error = "FingerprintMismatch"
                => /\ ~FingerprintOK
                   /\ log = <<"validate_keys", "fingerprint_check">>
                   /\ pc = "idle"

C4_Witness ==
    /\ Finished("unprotect")
    /\ result.error = "FingerprintMismatch"
    /\ args.ic_key = "K10" /\ store.ic_key = "K11"

\* C5: a protect or unprotect call with a key that is not 32 bytes long or is 32
\* zero bytes raises InvalidKeyMaterial as its first and only step; a protect
\* call so rejected stores and returns nothing.
C5_BadKey(k) ==
    Len(KeyBytes(k)) # 32 \/ \A i \in 1..Len(KeyBytes(k)) : KeyBytes(k)[i] = 0

C6_EntropyOut(k) ==
    /\ ~C5_BadKey(k)
    /\ SumBits(KeyBytes(k)) < 77 \/ SumBits(KeyBytes(k)) > 179

C6_EntropyValidation_Claimed ==
    (args.op \in {"protect", "unprotect"}
        /\ ~C5_BadKey(args.ic_key) /\ ~C5_BadKey(args.phone_key)
        /\ (C6_EntropyOut(args.ic_key) \/ C6_EntropyOut(args.phone_key)))
        => /\ pc = "idle"
           /\ result.error = "InvalidKeyMaterial"

C9_UnprotectChecks ==
    args.op = "unprotect"
        => /\ IsPrefix(log, UnprotectOrder)
           /\ InLog("verify_hmac") => FingerprintOK
           /\ InLog("verify_canary") => MacOK
           /\ result.status = "ok" => (FingerprintOK /\ MacOK /\ CanaryOK)
           /\ result.status # "ok" => result.value = None

C9_Witness ==
    /\ Finished("unprotect")
    /\ result.status = "ok"
    /\ log = UnprotectOrder

\* C10: decrypt generates keystream and XORs only after the tag verified; when
\* the tag does not match, the call raises AuthenticationFailure having
\* generated no keystream and returns no plaintext.
C10_AuthBeforeDecrypt ==
    args.op = "unprotect"
        => /\ \A i \in 1..Len(log) :
                log[i] \in {"keystream", "xor"}
                    => /\ \E j \in 1..(i - 1) : log[j] = "verify_hmac"
                       /\ MacOK
           /\ (InLog("verify_hmac") /\ ~MacOK)
                => /\ pc = "idle"
                   /\ result = Raised("unprotect", "AuthenticationFailure")
                   /\ log[Len(log)] = "verify_hmac"

C10_Witness ==
    /\ Finished("unprotect")
    /\ result.error = "AuthenticationFailure"
    /\ store.tampered /\ SameKeys

(***************************************************************************)
(* EncryptionEngine on its own.  SpecEnc: one encrypt call, on a plaintext  *)
(* of no byte, of one byte, of one keystream block and of more, under any  *)
(* of two encryption and two authentication keys, with a nonce given or    *)
(* drawn; the caller may change one byte of the ciphertext, of the tag or   *)
(* of the nonce;                                                           *)
(* then one decrypt call, with the authentication key or with the other.   *)
(* store keeps what was encrypted, work what the caller holds of the       *)
(* result.                                                                 *)
(***************************************************************************)
PlainLens == {0, 1, sha512_size} \cup {sha512_size + k : k \in 1..BlockOverrun}

Plaintext(n) == [i \in 1..n |-> B(i % 256)]

EngineKeyNames == {"K11", "K22"}

\* what the generator would have given in a call that does not ask it
UndrawnNonce == Plain(Rep(nonce_size, 0))

\* enc_key = secrets.token_bytes(32), auth_key = secrets.token_bytes(32)
EngineKey(name) == [kdf |-> "random", ikm |-> name]

EngineEncrypt(n, ek, ak, nonce, drawn) ==
    /\ pc = "idle"
    /\ result.op = "none"
    /\ LET enc == encrypt_call(Plaintext(n), EngineKey(ek), EngineKey(ak), nonce, drawn)
       IN  /\ work' = [ciphertext |-> enc.ciphertext, nonce |-> enc.nonce,
                       hmac_tag |-> enc.hmac_tag, changed |-> "none"]
           /\ result' = Returned("encrypt", enc)
    /\ args' = [op |-> "encrypt", plaintext |-> Plaintext(n), encryption_key |-> ek,
                authentication_key |-> ak, nonce |-> nonce]
    /\ store' = [present |-> FALSE, plaintext |-> Plaintext(n), encryption_key |-> ek,
                 authentication_key |-> ak]
    /\ UNCHANGED <<pc, log>>

\* tampered = bytearray(ciphertext); tampered[0] ^= 0xFF, at any position
EngineChangeCiphertext(i, delta) ==
    /\ pc = "idle"
    /\ result.op = "encrypt"
    /\ work.changed = "none"
    /\ i \in 1..Len(work.ciphertext)
    /\ work' = [work EXCEPT !.changed = "ciphertext", !.ciphertext[i] = Xor(@, B(delta))]
    /\ UNCHANGED <<pc, args, store, log, result>>

EngineChangeTag(i, delta) ==
    /\ pc = "idle"
    /\ result.op = "encrypt"
    /\ work.changed = "none"
    /\ i \in 1..Len(work.hmac_tag)
    /\ work' = [work EXCEPT !.changed = "hmac_tag", !.hmac_tag[i] = Xor(@, B(delta))]
    /\ UNCHANGED <<pc, args, store, log, result>>

\* the caller hands decrypt another nonce than encrypt returned
EngineChangeNonce(i, delta) ==
    /\ pc = "idle"
    /\ result.op = "encrypt"
    /\ work.changed = "none"
    /\ i \in 1..Len(work.nonce)
    /\ work' = [work EXCEPT !.changed = "nonce", !.nonce[i] = Xor(@, B(delta))]
    /\ UNCHANGED <<pc, args, store, log, result>>

EngineDecrypt(ak) ==
    /\ pc = "idle"
    /\ result.op = "encrypt"
    /\ LET dec == decrypt(work.ciphertext, EngineKey(store.encryption_key), EngineKey(ak),
                          work.nonce, work.hmac_tag)
       IN  result' = IF "error" \in DOMAIN dec
                     THEN Raised("decrypt", dec.error)
                     ELSE Returned("decrypt", dec.value)
    /\ args' = [op |-> "decrypt", encryption_key |-> store.encryption_key,
                authentication_key |-> ak]
    /\ UNCHANGED <<pc, work, store, log>>

NextEnc ==
    \/ \E n \in PlainLens, ek \in EngineKeyNames, ak \in EngineKeyNames, g \in 1..NumNonces :
          EngineEncrypt(n, ek, ak, Some(Nonce(g)), UndrawnNonce)
    \/ \E n \in PlainLens, ek \in EngineKeyNames, ak \in EngineKeyNames, d \in 1..NumNonces :
          EngineEncrypt(n, ek, ak, None, Nonce(d))
    \/ \E i \in 1..(sha512_size + BlockOverrun), delta \in Deltas : EngineChangeCiphertext(i, delta)
    \/ \E i \in 1..hmac_size, delta \in Deltas : EngineChangeTag(i, delta)
    \/ \E i \in 1..nonce_size, delta \in Deltas : EngineChangeNonce(i, delta)
    \/ \E ak \in EngineKeyNames : EngineDecrypt(ak)

SpecEnc == Init /\ [][NextEnc]_vars

\* the decrypt call was given what encrypt returned, and the same key
EngineUnchanged ==
    /\ work.changed = "none"
    /\ args.authentication_key = store.authentication_key

\* C11: decrypt of what encrypt returned, with one byte of the ciphertext or
\* of the tag changed, or under another authentication key, raises
\* AuthenticationFailure and returns nothing
C11_DecryptAuthFailure ==
    (/\ Finished("decrypt")
     /\ \/ work.changed \in {"ciphertext", "hmac_tag"}
        \/ args.authentication_key # store.authentication_key)
        => /\ result.status = "error"
           /\ result.error = "AuthenticationFailure"
           /\ result.value = None

\* a ciphertext of more than one block, changed in one byte, has been refused
\* under the right authentication key
C11_Witness ==
    /\ Finished("decrypt")
    /\ result.error = "AuthenticationFailure"
    /\ work.changed = "ciphertext"
    /\ args.authentication_key = store.authentication_key
    /\ Len(work.ciphertext) > sha512_size

\* C12: decrypt of what encrypt returned, under the same keys, returns the
\* plaintext, and the ciphertext is as long as the plaintext
C12_EncryptRoundTrip ==
    /\ result.op = "encrypt" => Len(result.value.ciphertext) = Len(store.plaintext)
    /\ (Finished("decrypt") /\ EngineUnchanged)
          => /\ result.status = "ok"
             /\ result.value = store.plaintext
             /\ Len(work.ciphertext) = Len(store.plaintext)

\* a plaintext of more than one keystream block has come back
C12_Witness ==
    /\ Finished("decrypt")
    /\ EngineUnchanged
    /\ result.status = "ok"
    /\ Len(store.plaintext) > sha512_size
    /\ result.value = store.plaintext

(***************************************************************************)
(* SpecNonce: encrypt calls in a row on one engine.  The caller gives a    *)
(* nonce, any value of the pool, or gives none, and then the generator     *)
(* gives a value that no earlier call has used (sixteen random bytes       *)
(* repeat an earlier value with negligible probability only).  store keeps *)
(* the history of the calls: the key, the nonce argument and the nonce     *)
(* that encrypt returned.                                                  *)
(***************************************************************************)
NoncePool == {Nonce(n) : n \in 1..(NumNonces + 1)}

History == IF "history" \in DOMAIN store THEN store.history ELSE <<>>

UsedNonces == {History[i].nonce : i \in 1..Len(History)}

NonceEncrypt(ek, nonce, drawn) ==
    /\ pc = "idle"
    /\ Len(History) < MaxEncryptCalls
    /\ LET enc == encrypt_call(Plaintext(1), EngineKey(ek), EngineKey("K22"), nonce, drawn)
       IN  /\ result' = Returned("encrypt", enc)
           /\ store' = [present |-> FALSE,
                        history |-> Append(History, [encryption_key |-> ek,
                                                     given |-> nonce,
                                                     nonce |-> enc.nonce])]
    /\ args' = [op |-> "encrypt", plaintext |-> Plaintext(1), encryption_key |-> ek,
                authentication_key |-> "K22", nonce |-> nonce]
    /\ UNCHANGED <<pc, work, log>>

NextNonce ==
    \/ \E ek \in EngineKeyNames, given \in NoncePool :
          NonceEncrypt(ek, Some(given), UndrawnNonce)
    \/ \E ek \in EngineKeyNames, drawn \in NoncePool \ UsedNonces :
          NonceEncrypt(ek, None, drawn)

SpecNonce == Init /\ [][NextNonce]_vars

\* calls i and j used the same nonce under the same encryption key
NonceReused(i, j) ==
    /\ History[i].encryption_key = History[j].encryption_key
    /\ History[i].nonce = History[j].nonce

\* C13 as claimed: in no sequence of encrypt calls is a nonce used twice
\* under the same encryption key
C13_NonceUniqueness_Claimed ==
    \A i \in 1..Len(History), j \in 1..Len(History) : i < j => ~NonceReused(i, j)

\* C13: encrypt uses the nonce the caller gives, and draws sixteen bytes when
\* the caller gives none; a nonce is used twice under the same encryption key
\* only in a call whose caller gave a nonce that an earlier call had used
C13_NonceUniqueness ==
    \A j \in 1..Len(History) :
        /\ ~History[j].given.none => History[j].nonce = History[j].given.value
        /\ History[j].given.none => Len(History[j].nonce) = nonce_size
        /\ \A i \in 1..(j - 1) : NonceReused(i, j) => ~History[j].given.none

\* the caller gave an engine-drawn nonce a second time under the same key
C13_Witness ==
    /\ Len(History) >= 2
    /\ History[1].given.none
    /\ ~History[2].given.none
    /\ NonceReused(1, 2)

(***************************************************************************)
(* CanaryTokenManager on its own.  SpecCanary: inject_tokens on data of    *)
(* every length up to MaxDataLen and on data as long as that of the        *)
(* self-test; the caller may change one byte of the marked data, in a      *)
(* chunk or in a token; then verify_and_extract with the verification and  *)
(* the length of the data.  work is what the caller holds; changed is the  *)
(* position of the changed byte, 0 when none was changed.                  *)
(***************************************************************************)
\* len(original_data) of the self-test
TestDataLen == 61

DataLens == (0..MaxDataLen) \cup {TestDataLen}

CanaryData(n) == [i \in 1..n |-> B(i)]

CanaryInject(n, seed) ==
    /\ pc = "idle"
    /\ result.op = "none"
    /\ LET injected == inject_tokens(CanaryData(n), Canaries(seed))
       IN  /\ work' = [marked |-> injected.marked, verification |-> injected.verification,
                       changed |-> 0]
           /\ result' = Returned("inject_tokens", injected)
    /\ args' = [op |-> "inject_tokens", data |-> CanaryData(n)]
    /\ UNCHANGED <<pc, store, log>>

\* tampered = bytearray(protected); tampered[50] ^= 0xFF, at any position
CanaryChange(i, delta) ==
    /\ pc = "idle"
    /\ result.op = "inject_tokens"
    /\ work.changed = 0
    /\ i \in 1..Len(work.marked)
    /\ work' = [work EXCEPT !.changed = i, !.marked[i] = Xor(@, B(delta))]
    /\ UNCHANGED <<pc, args, store, log, result>>

CanaryExtract ==
    /\ pc = "idle"
    /\ result.op = "inject_tokens"
    /\ LET out == verify_and_extract(work.marked, work.verification, Len(args.data))
       IN  result' = IF "error" \in DOMAIN out
                     THEN Raised("verify_and_extract", out.error)
                     ELSE Returned("verify_and_extract", out.value)
    /\ UNCHANGED <<pc, args, work, store, log>>

NextCanary ==
    \/ \E n \in DataLens, seed \in 1..NumTokenSeeds : CanaryInject(n, seed)
    \/ \E i \in 1..(TestDataLen + MaxDataLen + num_tokens * token_size), delta \in Deltas :
          CanaryChange(i, delta)
    \/ CanaryExtract

SpecCanary == Init /\ [][NextCanary]_vars

\* position i (1-based) of the marked data of n bytes lies in a token
InToken(i, n) ==
    LET chunk_size == n \div num_tokens
        tail == n - (chunk_size * (num_tokens - 1)) + token_size
    IN  \/ \E k \in 1..(num_tokens - 1) :
              /\ i > ChunkOffset(k, chunk_size) + chunk_size
              /\ i <= ChunkOffset(k + 1, chunk_size)
        \/ /\ i > ChunkOffset(num_tokens, chunk_size) + tail - token_size
           /\ i <= ChunkOffset(num_tokens, chunk_size) + tail

\* C14: verify_and_extract of what inject_tokens returned gives the data
\* back, and the marked data is num_tokens tokens longer than the data
C14_CanaryRoundTrip ==
    /\ result.op = "inject_tokens"
          => Len(result.value.marked) = Len(args.data) + num_tokens * token_size
    /\ (Finished("verify_and_extract") /\ work.changed = 0)
          => /\ result.status = "ok"
             /\ result.value = args.data
             /\ Len(work.marked) = Len(args.data) + num_tokens * token_size

\* data of a length that three does not divide has come back
C14_Witness ==
    /\ Finished("verify_and_extract")
    /\ work.changed = 0
    /\ result.status = "ok"
    /\ Len(args.data) = MaxDataLen
    /\ Len(args.data) % num_tokens # 0
    /\ result.value = args.data

\* C15 as claimed: after a change of one byte of the marked data, in a chunk
\* or in a token, verify_and_extract fails with TamperDetected
C15_CanaryTamperDetection_Claimed ==
    (Finished("verify_and_extract") /\ work.changed # 0)
        => result.status = "error" /\ result.error = "TamperDetected"

\* what the code does: a change in a token is detected, a change in a chunk
\* is not, and the changed data is returned
C15_TokenChangesOnly ==
    (Finished("verify_and_extract") /\ work.changed # 0)
        => IF InToken(work.changed, Len(args.data))
           THEN result.status = "error" /\ result.error = "TamperDetected"
           ELSE result.status = "ok" /\ result.value # args.data

(***************************************************************************)
(* DataFragmenter, IntegrityChecker and verify_integrity on their own.     *)
(* SpecFrag: FragmentB is created for a FragmentA of up to MaxFragLen      *)
(* bytes and two keys, equal or not, and the root is computed, as protect  *)
(* does;                                                                   *)
(* the caller may then change one thing of what it holds: a byte of        *)
(* FragmentA, of a key or of FragmentB, the length of FragmentB, a         *)
(* character or the length of the root, or swap the keys or the fragments; *)
(* then one of the functions is called on what the caller holds.  store    *)
(* keeps what was created, work what the caller holds.                     *)
(***************************************************************************)
FragmentAs == {Rep(n, B(0)) : n \in 0..MaxFragLen}

FragKeyNames == {"K11", "K22"}

\* characters that no hexdigest has: an ASCII one and one that is not ASCII
OtherChar == [nibble |-> "g", of |-> B(0)]

NonAsciiChar == [nibble |-> "non-ascii", of |-> B(0)]

RootChars == {OtherChar, NonAsciiChar}

\* the metadata handed to verify_integrity
Metadatas ==
    {[version |-> "1"],
     [key_fingerprint |-> generate_key_fingerprint(KeyBytes("K11"), KeyBytes("K22"))]}

FragCreate(a, ic, ph) ==
    /\ pc = "idle"
    /\ result.op = "none"
    /\ LET fragment_b == create_fragment_b(a, KeyBytes(ic), KeyBytes(ph))
       IN  /\ work' = [stage |-> "created", changed |-> "none", fragment_a |-> a,
                       fragment_b |-> fragment_b, ic_key |-> KeyBytes(ic),
                       phone_key |-> KeyBytes(ph), merkle_root |-> <<>>]
           /\ store' = [present |-> FALSE, fragment_a |-> a, fragment_b |-> fragment_b,
                        ic_key |-> KeyBytes(ic), phone_key |-> KeyBytes(ph),
                        merkle_root |-> <<>>]
           /\ result' = Returned("create_fragment_b", fragment_b)
    /\ args' = [op |-> "create_fragment_b"]
    /\ UNCHANGED <<pc, log>>

FragCommit ==
    /\ pc = "idle"
    /\ work # None
    /\ "stage" \in DOMAIN work
    /\ work.stage = "created"
    /\ LET merkle_root == compute_merkle_root(work.fragment_a, work.fragment_b)
       IN  /\ work' = [work EXCEPT !.stage = "committed", !.merkle_root = merkle_root]
           /\ store' = [store EXCEPT !.merkle_root = merkle_root]
           /\ result' = Returned("compute_merkle_root", merkle_root)
    /\ args' = [op |-> "compute_merkle_root"]
    /\ UNCHANGED <<pc, log>>

\* the caller holds everything and has changed nothing yet
FragHeld ==
    /\ pc = "idle"
    /\ "stage" \in DOMAIN work
    /\ work.stage = "committed"
    /\ work.changed = "none"

FragChange(changed, held) ==
    /\ FragHeld
    /\ held # [work EXCEPT !.changed = changed]
    /\ work' = held
    /\ UNCHANGED <<pc, args, store, log, result>>

ChangeFragmentA(i, delta) ==
    /\ FragHeld
    /\ i \in 1..Len(work.fragment_a)
    /\ FragChange("fragment_a",
                  [work EXCEPT !.changed = "fragment_a", !.fragment_a[i] = Xor(@, B(delta))])

ChangeIcKey(i, delta) ==
    /\ FragHeld
    /\ i \in 1..Len(work.ic_key)
    /\ FragChange("ic_key",
                  [work EXCEPT !.changed = "ic_key", !.ic_key[i] = XorBits(@, delta, 8)])

ChangePhoneKey(i, delta) ==
    /\ FragHeld
    /\ i \in 1..Len(work.phone_key)
    /\ FragChange("phone_key",
                  [work EXCEPT !.changed = "phone_key", !.phone_key[i] = XorBits(@, delta, 8)])

\* the keys are handed over in the wrong order
SwapKeys ==
    /\ FragHeld
    /\ FragChange("swap_keys",
                  [work EXCEPT !.changed = "swap_keys", !.ic_key = work.phone_key,
                               !.phone_key = work.ic_key])

ChangeFragmentB(i, delta) ==
    /\ FragHeld
    /\ i \in 1..Len(work.fragment_b)
    /\ FragChange("fragment_b",
                  [work EXCEPT !.changed = "fragment_b", !.fragment_b[i] = Xor(@, B(delta))])

\* FragmentB is cut to n bytes, or gets one byte more
ResizeFragmentB(n) ==
    /\ FragHeld
    /\ FragChange("fragment_b_length",
                  [work EXCEPT !.changed = "fragment_b_length",
                               !.fragment_b = IF n > Len(@) THEN @ \o <<B(0)>>
                                              ELSE Slice(@, 0, n)])

ChangeRoot(i, char) ==
    /\ FragHeld
    /\ i \in 1..Len(work.merkle_root)
    /\ FragChange("merkle_root",
                  [work EXCEPT !.changed = "merkle_root", !.merkle_root[i] = char])

\* the root is cut to n characters, or gets one character more
ResizeRoot(n) ==
    /\ FragHeld
    /\ FragChange("merkle_root_length",
                  [work EXCEPT !.changed = "merkle_root_length",
                               !.merkle_root = IF n > Len(@) THEN @ \o <<OtherChar>>
                                               ELSE Slice(@, 0, n)])

\* the fragments are handed over in the wrong order
SwapFragments ==
    /\ FragHeld
    /\ FragChange("swap_fragments",
                  [work EXCEPT !.changed = "swap_fragments", !.fragment_a = work.fragment_b,
                               !.fragment_b = work.fragment_a])

\* one call on what the caller holds
FragCallable ==
    /\ pc = "idle"
    /\ "stage" \in DOMAIN work
    /\ work.stage = "committed"

FragChecked(op, value) ==
    /\ work' = [work EXCEPT !.stage = "checked"]
    /\ args' = [op |-> op]
    /\ result' = Returned(op, value)
    /\ UNCHANGED <<pc, store, log>>

CallCreateFragmentB ==
    /\ FragCallable
    /\ FragChecked("create_fragment_b",
                   create_fragment_b(work.fragment_a, work.ic_key, work.phone_key))

CallVerifyBinding ==
    /\ FragCallable
    /\ FragChecked("verify_fragment_binding",
                   verify_fragment_binding(work.fragment_a, work.fragment_b,
                                           work.ic_key, work.phone_key))

CallComputeRoot ==
    /\ FragCallable
    /\ FragChecked("compute_merkle_root",
                   compute_merkle_root(work.fragment_a, work.fragment_b))

CallVerifyRoot ==
    /\ FragCallable
    /\ FragChecked("verify_merkle_root",
                   verify_merkle_root(work.fragment_a, work.fragment_b, work.merkle_root))

CallCheckerVerifyRoot ==
    /\ FragCallable
    /\ LET out == IntegrityChecker_verify_merkle_root(work.fragment_a, work.fragment_b,
                                                      work.merkle_root)
       IN  result' = IF "error" \in DOMAIN out
                     THEN Raised("IntegrityChecker.verify_merkle_root", out.error)
                     ELSE Returned("IntegrityChecker.verify_merkle_root", out.value)
    /\ work' = [work EXCEPT !.stage = "checked"]
    /\ args' = [op |-> "IntegrityChecker.verify_merkle_root"]
    /\ UNCHANGED <<pc, store, log>>

CallVerifyIntegrity(metadata) ==
    /\ FragCallable
    /\ work' = [work EXCEPT !.stage = "checked"]
    /\ args' = [op |-> "verify_integrity", metadata |-> metadata]
    /\ result' = Returned("verify_integrity",
                          verify_integrity(work.fragment_a, work.fragment_b,
                                           work.merkle_root, metadata))
    /\ UNCHANGED <<pc, store, log>>

NextFrag ==
    \/ \E a \in FragmentAs, ic \in FragKeyNames : FragCreate(a, ic, "K22")
    \/ FragCommit
    \/ \E i \in 1..MaxFragLen, delta \in Deltas : ChangeFragmentA(i, delta)
    \/ \E i \in 1..key_size, delta \in Deltas : ChangeIcKey(i, delta)
    \/ \E i \in 1..key_size, delta \in Deltas : ChangePhoneKey(i, delta)
    \/ SwapKeys
    \/ \E i \in 1..fragment_b_size, delta \in Deltas : ChangeFragmentB(i, delta)
    \/ \E n \in {0, fragment_b_size - 1, fragment_b_size + 1} : ResizeFragmentB(n)
    \/ \E i \in {1, 2 * sha512_size}, char \in RootChars : ChangeRoot(i, char)
    \/ \E n \in {0, 2 * sha512_size - 1, 2 * sha512_size + 1} : ResizeRoot(n)
    \/ SwapFragments
    \/ CallCreateFragmentB
    \/ CallVerifyBinding
    \/ CallComputeRoot
    \/ CallVerifyRoot
    \/ CallCheckerVerifyRoot
    \/ \E metadata \in Metadatas : CallVerifyIntegrity(metadata)

SpecFrag == Init /\ [][NextFrag]_vars

\* a call on what the caller holds has returned or raised
Checked(op) == Finished(op) /\ "stage" \in DOMAIN work /\ work.stage = "checked"

\* what the caller holds of the arguments of create_fragment_b is as created
BindingInputsHeld ==
    /\ work.fragment_a = store.fragment_a
    /\ work.ic_key = store.ic_key
    /\ work.phone_key = store.phone_key

\* what the caller holds of the arguments of verify_merkle_root is as created
CommitmentHeld ==
    /\ work.fragment_a = store.fragment_a
    /\ work.fragment_b = store.fragment_b
    /\ work.merkle_root = store.merkle_root

\* C16: create_fragment_b gives the same FragmentB again for the same
\* FragmentA and keys, whatever was called in between, and another FragmentB
\* when one byte of FragmentA, of the IC key or of the phone key is changed
C16_FragmentBAvalanche ==
    Checked("create_fragment_b")
        => /\ BindingInputsHeld => result.value = store.fragment_b
           /\ work.changed \in {"fragment_a", "ic_key", "phone_key"}
                 => result.value # store.fragment_b

\* one byte of the phone key was changed and FragmentB came out different
C16_Witness ==
    /\ Checked("create_fragment_b")
    /\ work.changed = "phone_key"
    /\ result.value # store.fragment_b

\* C17: verify_fragment_binding returns a boolean and raises nothing; it
\* returns true exactly when FragmentA, FragmentB and the keys are those
\* FragmentB was created for
C17_BindingVerification ==
    Checked("verify_fragment_binding")
        => /\ result.status = "ok"
           /\ result.value \in BOOLEAN
           /\ result.value <=> (BindingInputsHeld /\ work.fragment_b = store.fragment_b)

\* a FragmentB cut by one byte was refused without an error
C17_Witness ==
    /\ Checked("verify_fragment_binding")
    /\ work.changed = "fragment_b_length"
    /\ Len(work.fragment_b) = fragment_b_size - 1
    /\ result.status = "ok"
    /\ result.value = FALSE

\* C18: verify_merkle_root, of the fragmenter and of the integrity checker,
\* returns true exactly when the fragments and the root are those the root
\* was computed for, and the root of the swapped fragments is another root
C18_CommitmentVerification ==
    /\ Checked("verify_merkle_root")
          => /\ result.status = "ok"
             /\ result.value <=> CommitmentHeld
    /\ (Checked("IntegrityChecker.verify_merkle_root") /\ result.status = "ok")
          => (result.value <=> CommitmentHeld)
    /\ (Checked("IntegrityChecker.verify_merkle_root") /\ result.status = "error")
          => ~CommitmentHeld
    /\ (Checked("compute_merkle_root") /\ work.changed = "swap_fragments")
          => result.value # store.merkle_root

\* the root of the swapped fragments was computed and is another root
C18_Witness ==
    /\ Checked("compute_merkle_root")
    /\ work.changed = "swap_fragments"
    /\ work.fragment_a # work.fragment_b
    /\ result.value # store.merkle_root

C20_SizeInvariants ==
    /\ Finished("create_fragment_b") => Len(result.value) = fragment_b_size
    /\ Finished("compute_merkle_root")
          => /\ Len(result.value) = 2 * sha512_size
             /\ \A i \in 1..Len(result.value) : result.value[i].nibble \in {"hi", "lo"}

\* both have been returned for a FragmentA of the greatest length
C20_Witness ==
    /\ Finished("compute_merkle_root")
    /\ Len(store.fragment_a) = MaxFragLen
    /\ Len(store.fragment_b) = fragment_b_size
    /\ Len(result.value) = 2 * sha512_size

\* C29: the tag does not cover the nonce: decrypt of what encrypt returned,
\* under the same keys and with another nonce, passes the tag check and
\* returns a byte string as long as the plaintext, which is not the plaintext
\* unless that is empty
C29_TagDoesNotBindNonce ==
    /\ result.op = "encrypt"
          => result.value.hmac_tag = _compute_hmac(result.value.ciphertext,
                                                   EngineKey(store.authentication_key))
    /\ (/\ Finished("decrypt")
        /\ work.changed = "nonce"
        /\ args.authentication_key = store.authentication_key)
          => /\ result.status = "ok"
             /\ Len(result.value) = Len(store.plaintext)
             /\ store.plaintext # <<>> => result.value # store.plaintext

\* a ciphertext of more than one block was decrypted under another nonce
C29_Witness ==
    /\ Finished("decrypt")
    /\ work.changed = "nonce"
    /\ args.authentication_key = store.authentication_key
    /\ result.status = "ok"
    /\ Len(result.value) > sha512_size
    /\ result.value # store.plaintext

(***************************************************************************)
(* SpecGate: the record is protected under the keys of the scenarios; the  *)
(* key_fingerprint entry of the stored metadata is removed or replaced,    *)
(* FragmentA may be changed as well, and unprotect is called with the keys *)
(* the record was protected under.                                         *)
(***************************************************************************)
\* the offsets of the nonce, the tag and the ciphertext in FragmentA
GatePositions == {1, nonce_size + 1, nonce_size + hmac_size + 1}

\* fingerprints that are not the one of the keys of the record
WrongFingerprints ==
    {generate_key_fingerprint(KeyBytes("K33"), KeyBytes("K22")),
     generate_key_fingerprint(KeyBytes("K22"), KeyBytes("K11")),
     <<>>}
    \cup {[generate_key_fingerprint(KeyBytes("K11"), KeyBytes("K22")) EXCEPT ![i] = OtherChar] :
              i \in {1, fingerprint_chars}}

\* the caller passes metadata that has no key_fingerprint entry
DropFingerprint ==
    /\ pc = "idle"
    /\ store.present
    /\ "key_fingerprint" \in DOMAIN store.metadata
    /\ store' = [store EXCEPT !.metadata =
                     [k \in (DOMAIN store.metadata) \ {"key_fingerprint"} |-> store.metadata[k]]]
    /\ UNCHANGED <<pc, args, work, log, result>>

\* the caller passes metadata whose key_fingerprint entry is another string
ReplaceFingerprint(fingerprint) ==
    /\ pc = "idle"
    /\ store.present
    /\ "key_fingerprint" \in DOMAIN store.metadata
    /\ store' = [store EXCEPT !.metadata.key_fingerprint = fingerprint]
    /\ UNCHANGED <<pc, args, work, log, result>>

NextGate ==
    \/ \E d \in Records :
          /\ result.op = "none"
          /\ ProtectCall(d, "K11", "K22")
    \/ ProtectSteps
    \/ /\ result.op = "protect"
       /\ DropFingerprint
    \/ \E fingerprint \in WrongFingerprints :
          /\ result.op = "protect"
          /\ ReplaceFingerprint(fingerprint)
    \/ /\ store.present
       /\ result.op = "protect"
       /\ \E i \in GatePositions, delta \in Deltas : Tamper(i, delta)
    \/ /\ result.op = "protect"
       /\ store.present
       /\ UnprotectCall(store.ic_key, store.phone_key)
    \/ UnprotectSteps

SpecGate == Init /\ [][NextGate]_vars

\* the metadata passed to unprotect has no key_fingerprint entry, or one that
\* is not the fingerprint of the keys of the call
FingerprintAbsentOrWrong ==
    \/ "key_fingerprint" \notin DOMAIN store.metadata
    \/ store.metadata.key_fingerprint
          # generate_key_fingerprint(KeyBytes(args.ic_key), KeyBytes(args.phone_key))

\* C30: the fingerprint gate fails closed: an unprotect call with valid keys
\* and metadata that has no key_fingerprint entry, or a wrong one, takes the
\* key validation and the fingerprint comparison and nothing else, whatever
\* FragmentA holds, and fails with FingerprintMismatch.
C30_GateFailsClosed ==
    (/\ args.op = "unprotect"
     /\ _validate_hardware_keys(KeyBytes(args.ic_key), KeyBytes(args.phone_key)) = "ok"
     /\ FingerprintAbsentOrWrong)
        => /\ IsPrefix(log, <<"validate_keys", "fingerprint_check">>)
           /\ pc \in {"u_fingerprint", "idle"}
           /\ pc = "idle" => /\ result.status = "error"
                             /\ result.error = "FingerprintMismatch"

C30_Witness ==
    /\ Finished("unprotect")
    /\ "key_fingerprint" \notin DOMAIN store.metadata
    /\ store.tampered
    /\ SameKeys
    /\ result.error = "FingerprintMismatch"

(***************************************************************************)
(* Error kinds.  A failed call is named in the model by the check that     *)
(* raised; what the caller catches is the class of the exception.          *)
(***************************************************************************)
ErrorKinds == {"InvalidKeyMaterial", "FingerprintMismatch", "AuthenticationFailure",
               "TamperDetected"}

\* key_derivation.py 184-193 and 129, encryption_engine.py 78 and
\* canary_tokens.py 110 all raise ValueError, with a message of their own
ExceptionType(kind) ==
    CASE kind = "InvalidKeyMaterial" -> "ValueError"
      [] kind = "FingerprintMismatch" -> "ValueError"
      [] kind = "AuthenticationFailure" -> "ValueError"
      [] kind = "TamperDetected" -> "ValueError"
      [] OTHER -> "Exception"

\* C23 as claimed: the failures are distinct error kinds, so the kind of the
\* exception a failed call raised tells the caller which check failed: no
\* other check would have raised an exception of that kind.
C23_DistinctErrorKinds_Claimed ==
    (pc = "idle" /\ result.status = "error" /\ result.error \in ErrorKinds)
        => \A kind \in ErrorKinds :
              ExceptionType(kind) = ExceptionType(result.error) => kind = result.error

(***************************************************************************)
(* Key derivation: ECCHardwareManager.derive_keys_from_public and          *)
(* _hkdf_derive of the core, and ECCKeyManager of the hardware package,    *)
(* which derives with the HKDF of the cryptography library (RFC 5869).     *)
(* A string is the sequence of its code points.                            *)
(***************************************************************************)
MaxSeedLen == 2

\* str.encode('utf-8') for code points below 2048
Utf8(text) ==
    Join([i \in 1..Len(text) |->
            IF text[i] < 128 THEN <<text[i]>>
            ELSE <<192 + (text[i] \div 64), 128 + (text[i] % 64)>>])

\* b"OBSIDIAN_IC_CARD_KEY_V1"
IcSalt == <<79, 66, 83, 73, 68, 73, 65, 78, 95, 73, 67, 95, 67, 65, 82, 68, 95, 75, 69, 89,
            95, 86, 49>>

\* b"OBSIDIAN_PHONE_KEY_V1"
PhoneSalt == <<79, 66, 83, 73, 68, 73, 65, 78, 95, 80, 72, 79, 78, 69, 95, 75, 69, 89, 95, 86,
               49>>

\* mutant: the expand step leaves out the context
_hkdf_derive_NoInfo(input_material, salt, info) ==
    LET prk == Sha256(Plain(salt \o input_material))
        okm == Sha256(prk \o <<B(1)>>)
    IN  Slice(okm, 0, key_size)

\* _hkdf_derive: prk = sha256(salt + input_material); okm = sha256(prk + info + b'\x01');
\* okm[:self.key_size].  There is no check of input_material.
_hkdf_derive(input_material, salt, info) ==
    LET prk == Sha256(Plain(salt \o input_material))
        okm == Sha256(prk \o Plain(info) \o <<B(1)>>)
    IN  Slice(okm, 0, key_size)

\* mutant: both keys are derived under the salt of the IC key
derive_keys_from_public_OneSalt(card_public_key, phone_public_key, did) ==
    [ic_key |-> _hkdf_derive(card_public_key, IcSalt, Utf8(did)),
     phone_key |-> _hkdf_derive(phone_public_key, IcSalt, Utf8(did))]

derive_keys_from_public(card_public_key, phone_public_key, did) ==
    [ic_key |-> _hkdf_derive(card_public_key, IcSalt, Utf8(did)),
     phone_key |-> _hkdf_derive(phone_public_key, PhoneSalt, Utf8(did))]

\* HKDF(algorithm=SHA256, length, salt, info).derive(ikm) of the library:
\* PRK = HMAC(salt, ikm); OKM = HMAC(PRK, info || 0x01)[:length], one block
HKDF(length, salt, info, ikm) ==
    LET prk == Digest("hmac-sha256", Plain(salt), Plain(ikm), sha256_size)
        okm == Digest("hmac-sha256", prk, Plain(info) \o <<B(1)>>, sha256_size)
    IN  Slice(okm, 0, length)

derive_ic_key(card_public_key_pem, did) ==
    HKDF(key_size, IcSalt, Utf8(did), Utf8(card_public_key_pem))

derive_phone_key(phone_public_key_pem, did) ==
    HKDF(key_size, PhoneSalt, Utf8(did), Utf8(phone_public_key_pem))

derive_both_keys(card_public_key_pem, phone_public_key_pem, did) ==
    [ic_key |-> derive_ic_key(card_public_key_pem, did),
     phone_key |-> derive_phone_key(phone_public_key_pem, did)]

(***************************************************************************)
(* SpecDerive: keys are derived, call after call, from seeds of 0 to       *)
(* MaxSeedLen bytes and from an empty identifier and one with a non-ASCII  *)
(* character; store keeps the call before the last one.                    *)
(***************************************************************************)
\* "-" repeated: PEM text starts with "-----BEGIN PUBLIC KEY-----"
Seeds == {Rep(n, 45) : n \in 0..MaxSeedLen}

\* "" and "dé"
Dids == {<<>>, <<100, 233>>}

DeriveDone(call, value) ==
    /\ pc = "idle"
    /\ args' = call
    /\ result' = Returned(call.op, value)
    /\ store' = [present |-> FALSE, previous |-> [args |-> args, result |-> result]]
    /\ log' = <<call.op>>
    /\ UNCHANGED <<pc, work>>

CallDeriveKeysFromPublic(card, phone, did) ==
    DeriveDone([op |-> "derive_keys_from_public",
                card_public_key |-> card, phone_public_key |-> phone, did |-> did],
               derive_keys_from_public(card, phone, did))

CallHkdfDerive(input_material, salt, did) ==
    DeriveDone([op |-> "_hkdf_derive",
                input_material |-> input_material, salt |-> salt, info |-> Utf8(did)],
               _hkdf_derive(input_material, salt, Utf8(did)))

CallDeriveBothKeys(card, phone, did) ==
    DeriveDone([op |-> "derive_both_keys",
                card_public_key |-> card, phone_public_key |-> phone, did |-> did],
               derive_both_keys(card, phone, did))

NextDerive ==
    \/ \E card \in Seeds, phone \in Seeds, did \in Dids : CallDeriveKeysFromPublic(card, phone, did)
    \/ \E seed \in Seeds, salt \in {IcSalt, PhoneSalt}, did \in Dids : CallHkdfDerive(seed, salt, did)
    \/ \E card \in Seeds, phone \in Seeds, did \in Dids : CallDeriveBothKeys(card, phone, did)

SpecDerive == Init /\ [][NextDerive]_vars

DeriveOps == {"derive_keys_from_public", "_hkdf_derive", "derive_both_keys"}

\* the keys a finished call returned
DerivedKeys(res) ==
    IF res.op = "_hkdf_derive" THEN {res.value} ELSE {res.value.ic_key, res.value.phone_key}

\* hash(hash(salt || seed) || context || 0x01), its first 32 bytes
ExtractThenExpand(seed, salt, context) ==
    SubSeq(Sha256(Sha256(Plain(salt \o seed)) \o Plain(context) \o <<B(1)>>), 1, 32)

C25_EmptySeedRejected_Claimed ==
    /\ (pc = "idle" /\ result.op = "_hkdf_derive" /\ args.input_material = <<>>)
            => result.status = "error" /\ result.error = "InvalidSeedMaterial"
    /\ (/\ pc = "idle"
        /\ result.op = "derive_keys_from_public"
        /\ (args.card_public_key = <<>> \/ args.phone_public_key = <<>>))
            => result.status = "error" /\ result.error = "InvalidSeedMaterial"

\* C26: the salts of the two keys are different constants, and the IC key and
\* the phone key derived from one seed and one identifier are different, in
\* derive_keys_from_public and in ECCKeyManager.derive_both_keys alike.
C26_DomainSeparation ==
    /\ IcSalt # PhoneSalt
    /\ (/\ pc = "idle"
        /\ result.op \in {"derive_keys_from_public", "derive_both_keys"}
        /\ args.card_public_key = args.phone_public_key)
            => result.value.ic_key # result.value.phone_key

C26_Witness ==
    /\ pc = "idle"
    /\ result.op = "derive_keys_from_public"
    /\ args.card_public_key = args.phone_public_key
    /\ args.card_public_key # <<>>
    /\ result.value.ic_key # result.value.phone_key

(***************************************************************************)
(* PDSALocalStorage.  The two directories are functions from file names to *)
(* files; a file is there or not and holds bytes.  The metadata maps a did *)
(* to its entry; _save_metadata writes it back after every change, so the  *)
(* instance attribute and the metadata file hold the same value.           *)
(***************************************************************************)
MissingFile == [exists |-> FALSE, data |-> <<>>]

File(data) == [exists |-> TRUE, data |-> data]

\* did.replace(':', '_')
ReplaceColon(did) == [i \in 1..Len(did) |-> IF did[i] = 58 THEN 95 ELSE did[i]]

\* hashlib.sha256(data).hexdigest(): 64 characters that name the bytes hashed
\* (ideal digest: two texts are equal exactly when the bytes are)
Sha256Hex(data) == [hexdigest |-> "sha256", of |-> data, chars |-> 2 * sha256_size]

\* text[:n] of a digest text: its first n characters still name the bytes
Left(text, n) == [text EXCEPT !.chars = IF n < @ THEN n ELSE @]

\* filename = f"{did.replace(':', '_')}_{fragment_hash[:16]}.frag"
Filename(did, fragment_a) ==
    [owner |-> ReplaceColon(did), hash16 |-> Left(Sha256Hex(fragment_a), 16)]

\* store_fragment_a: write the primary file, copy it to the backup directory
\* when backup is enabled, set and save the metadata entry of the did
store_fragment_a(st, did, fragment_a) ==
    LET name == Filename(did, fragment_a)
        written == [st.primary EXCEPT ![name] = File(fragment_a)]
        entry == [storage_path |-> name,
                  backup_path |-> IF st.enable_backup THEN Some(name) ELSE None,
                  fragment_hash |-> Sha256Hex(fragment_a),
                  size_bytes |-> Len(fragment_a),
                  replicated |-> st.enable_backup]
    IN  [st EXCEPT !.primary = written,
                   !.backup = IF st.enable_backup THEN [@ EXCEPT ![name] = written[name]] ELSE @,
                   !.metadata[did] = Some(entry)]

\* mutant: the fragment read from the backup is returned and the primary is
\* left as it was
_retrieve_from_backup_NoRestore(st, entry) ==
    IF entry.backup_path.none \/ ~st.backup[entry.backup_path.value].exists
    THEN [value |-> None, st |-> st]
    ELSE LET fragment_a == st.backup[entry.backup_path.value].data
         IN  IF Sha256Hex(fragment_a) # entry.fragment_hash
             THEN [value |-> None, st |-> st]
             ELSE [value |-> Some(fragment_a), st |-> st]

\* _retrieve_from_backup: None when there is no backup file or its hash is not
\* the stored one; else copy the backup over the primary and return its bytes
_retrieve_from_backup(st, entry) ==
    IF entry.backup_path.none \/ ~st.backup[entry.backup_path.value].exists
    THEN [value |-> None, st |-> st]
    ELSE LET fragment_a == st.backup[entry.backup_path.value].data
         IN  IF Sha256Hex(fragment_a) # entry.fragment_hash
             THEN [value |-> None, st |-> st]
             ELSE [value |-> Some(fragment_a),
                   st |-> [st EXCEPT !.primary[entry.storage_path] =
                                         st.backup[entry.backup_path.value]]]

\* mutant: the bytes of the primary file are returned without the hash check
retrieve_fragment_a_Unverified(st, did) ==
    IF st.metadata[did].none THEN [value |-> None, st |-> st]
    ELSE LET entry == st.metadata[did].value
         IN  IF st.primary[entry.storage_path].exists
             THEN [value |-> Some(st.primary[entry.storage_path].data), st |-> st]
             ELSE IF st.enable_backup /\ ~entry.backup_path.none
                  THEN _retrieve_from_backup(st, entry)
                  ELSE [value |-> None, st |-> st]

\* retrieve_fragment_a: the value returned and the storage it leaves
retrieve_fragment_a(st, did) ==
    IF st.metadata[did].none THEN [value |-> None, st |-> st]
    ELSE LET entry == st.metadata[did].value
         IN  IF st.primary[entry.storage_path].exists
             THEN LET fragment_a == st.primary[entry.storage_path].data
                  IN  IF Sha256Hex(fragment_a) # entry.fragment_hash
                      THEN IF st.enable_backup /\ ~entry.backup_path.none
                           THEN _retrieve_from_backup(st, entry)
                           ELSE [value |-> None, st |-> st]
                      ELSE [value |-> Some(fragment_a), st |-> st]
             ELSE IF st.enable_backup /\ ~entry.backup_path.none
                  THEN _retrieve_from_backup(st, entry)
                  ELSE [value |-> None, st |-> st]

\* delete_fragment_a: False for an unknown did; else remove the primary file,
\* the backup file when backup is enabled, and the metadata entry
delete_fragment_a(st, did) ==
    IF st.metadata[did].none THEN [value |-> FALSE, st |-> st]
    ELSE LET entry == st.metadata[did].value
         IN  [value |-> TRUE,
              st |-> [st EXCEPT !.primary[entry.storage_path] = MissingFile,
                                !.backup = IF st.enable_backup /\ ~entry.backup_path.none
                                           THEN [@ EXCEPT ![entry.backup_path.value] = MissingFile]
                                           ELSE @,
                                !.metadata[did] = None]]

(***************************************************************************)
(* SpecStore: one storage directory.  The storage is constructed, with     *)
(* backup enabled or not, and may be constructed again over the same       *)
(* directories; fragments are stored, retrieved and deleted for two dids   *)
(* that differ in ':' and '_' only; the environment writes and removes     *)
(* files.  store.last (the bytes stored for a did and not deleted since)   *)
(* and store.touched (the environment changed a file of the did's entry    *)
(* since it was stored) are history variables: no operation reads them.    *)
(***************************************************************************)
\* "d:a" and "d_a"
StoreDids == {<<100, 58, 97>>, <<100, 95, 97>>}

\* the empty fragment and a fragment of one byte
StoredFragments == {<<>>, <<B(1)>>}

\* bytes that are no fragment of a caller
JunkBytes == <<B(255), B(255), B(255)>>

FileNames == {Filename(did, a) : did \in StoreDids, a \in StoredFragments}

Constructed == "enable_backup" \in DOMAIN store

StorageOf(st) ==
    [enable_backup |-> st.enable_backup, primary |-> st.primary,
     backup |-> st.backup, metadata |-> st.metadata]

\* what a retrieve call finds before it runs
PrimaryHolds(primary, did) ==
    /\ ~store.metadata[did].none
    /\ primary[store.metadata[did].value.storage_path] = File(store.last[did].value)

PrimaryIntact(did) == PrimaryHolds(store.primary, did)

BackupIntact(did) ==
    /\ ~store.metadata[did].none
    /\ ~store.metadata[did].value.backup_path.none
    /\ store.backup[store.metadata[did].value.backup_path.value]
            = File(store.last[did].value)

\* __init__: the attributes are set and the metadata file is loaded
Construct(enable_backup) ==
    /\ pc = "idle"
    /\ store' = IF Constructed
                THEN [store EXCEPT !.enable_backup = enable_backup]
                ELSE [present |-> FALSE,
                      enable_backup |-> enable_backup,
                      primary |-> [name \in FileNames |-> MissingFile],
                      backup |-> [name \in FileNames |-> MissingFile],
                      metadata |-> [did \in StoreDids |-> None],
                      last |-> [did \in StoreDids |-> None],
                      touched |-> [did \in StoreDids |-> FALSE]]
    /\ args' = [op |-> "__init__", enable_backup |-> enable_backup]
    /\ result' = Returned("__init__", None)
    /\ log' = <<"__init__">>
    /\ work' = None
    /\ UNCHANGED pc

StorageDone(call, out, before) ==
    /\ args' = call
    /\ result' = Returned(call.op, out.value)
    /\ log' = <<call.op>>
    /\ work' = before
    /\ UNCHANGED pc

CallStore(did, fragment_a) ==
    /\ pc = "idle"
    /\ Constructed
    /\ LET st == store_fragment_a(StorageOf(store), did, fragment_a)
       IN  /\ store' = [store EXCEPT !.primary = st.primary,
                                     !.backup = st.backup,
                                     !.metadata = st.metadata,
                                     !.last[did] = Some(fragment_a),
                                     !.touched[did] = FALSE]
           /\ StorageDone([op |-> "store_fragment_a", did |-> did],
                          [value |-> st.metadata[did]], None)

CallRetrieve(did) ==
    /\ pc = "idle"
    /\ Constructed
    /\ LET out == retrieve_fragment_a(StorageOf(store), did)
       IN  /\ store' = [store EXCEPT !.primary = out.st.primary,
                                     !.backup = out.st.backup,
                                     !.metadata = out.st.metadata]
           /\ StorageDone([op |-> "retrieve_fragment_a", did |-> did], out,
                          [primary_intact |-> PrimaryIntact(did),
                           backup_intact |-> BackupIntact(did),
                           primary_left_intact |-> PrimaryHolds(out.st.primary, did),
                           written |-> StorageOf(store) # out.st])

CallDelete(did) ==
    /\ pc = "idle"
    /\ Constructed
    /\ LET out == delete_fragment_a(StorageOf(store), did)
       IN  /\ store' = [store EXCEPT !.primary = out.st.primary,
                                     !.backup = out.st.backup,
                                     !.metadata = out.st.metadata,
                                     !.last[did] = IF out.value THEN None ELSE @]
           /\ StorageDone([op |-> "delete_fragment_a", did |-> did], out, None)

\* the dids whose metadata entry names the file
OwnersOf(dir, name) ==
    {did \in StoreDids :
        /\ ~store.metadata[did].none
        /\ IF dir = "primary" THEN store.metadata[did].value.storage_path = name
           ELSE /\ ~store.metadata[did].value.backup_path.none
                /\ store.metadata[did].value.backup_path.value = name}

\* the environment writes or removes a file that an entry names
ChangeFile(dir, name, file) ==
    /\ pc = "idle"
    /\ Constructed
    /\ OwnersOf(dir, name) # {}
    /\ store[dir][name] # file
    /\ store' = [store EXCEPT ![dir][name] = file,
                              !.touched = [did \in StoreDids |->
                                              @[did] \/ did \in OwnersOf(dir, name)]]
    /\ args' = [op |-> "environment"]
    /\ result' = Returned("environment", None)
    /\ log' = <<"environment">>
    /\ work' = None
    /\ UNCHANGED pc

NextStore ==
    \/ \E enable_backup \in BOOLEAN : Construct(enable_backup)
    \/ \E did \in StoreDids, a \in StoredFragments : CallStore(did, a)
    \/ \E did \in StoreDids : CallRetrieve(did)
    \/ \E did \in StoreDids : CallDelete(did)
    \/ \E dir \in {"primary", "backup"}, name \in FileNames,
          file \in {MissingFile, File(JunkBytes)} \cup {File(a) : a \in StoredFragments} :
            ChangeFile(dir, name, file)

SpecStore == Init /\ [][NextStore]_vars

Retrieved == pc = "idle" /\ result.op = "retrieve_fragment_a"

\* C27 as claimed: a retrieve for a did that was stored, with no store or
\* delete for that did since and no file of its entry changed by anyone but
\* the storage, returns the stored bytes; a retrieve for a did never stored,
\* or deleted since, returns None.
C27_StoreThenRetrieve_Claimed ==
    Retrieved
        => /\ (~store.last[args.did].none /\ ~store.touched[args.did])
                => /\ ~result.value.none
                   /\ result.value.value = store.last[args.did].value
           /\ store.last[args.did].none => result.value.none

\* what holds of C27: a did never stored, or deleted since, gives None, and
\* the stored bytes come back whenever the primary file of the entry is intact
C27_RetrieveWhatIsThere ==
    Retrieved
        => /\ store.last[args.did].none => result.value.none
           /\ work.primary_intact
                => /\ ~result.value.none
                   /\ result.value.value = store.last[args.did].value

\* C28 as claimed: retrieve returns None or the bytes last stored, and with
\* the primary missing or corrupted and the backup intact it returns the
\* stored bytes and leaves the primary rewritten, backup enabled or not.
C28_NeverCorrupted_Claimed ==
    Retrieved
        => /\ result.value.none
                \/ (~store.last[args.did].none
                      /\ result.value.value = store.last[args.did].value)
           /\ (~work.primary_intact /\ work.backup_intact)
                => /\ ~result.value.none
                   /\ work.primary_left_intact

\* C28: retrieve returns None or the bytes last stored for the did, whatever
\* the files hold; when the instance has backup enabled, the primary file is
\* missing or does not hold the stored bytes and the backup holds them, it
\* returns the stored bytes and leaves the primary file holding them; and a
\* retrieve that finds the primary intact returns its bytes and writes nothing.
C28_NeverCorrupted ==
    Retrieved
        => /\ result.value.none
                \/ (~store.last[args.did].none
                      /\ result.value.value = store.last[args.did].value)
           /\ (store.enable_backup /\ ~work.primary_intact /\ work.backup_intact)
                => /\ ~result.value.none
                   /\ result.value.value = store.last[args.did].value
                   /\ work.primary_left_intact
           /\ work.primary_intact
                => /\ ~result.value.none
                   /\ ~work.written

C28_Witness ==
    /\ Retrieved
    /\ store.enable_backup
    /\ ~work.primary_intact
    /\ work.backup_intact
    /\ ~result.value.none
    /\ result.value.value # <<>>
    /\ work.primary_left_intact
    /\ work.written

(***************************************************************************)
(* SpecThreads: concurrent calls on shared instances.  One EncryptionEngine,*)
(* CanaryTokenManager, DataFragmenter and ECCHardwareManager are           *)
(* constructed; store.instance holds the attributes their __init__ sets.   *)
(* Each thread calls a component operation and runs it statement by        *)
(* statement, interleaved with the other thread.  pc, args and result are  *)
(* functions of the thread; work maps a frame to the local variables of    *)
(* the call that runs in it.                                               *)
(***************************************************************************)
Threads == {1, 2}

\* self.nonce_size, self.hmac_size, self.token_size, self.num_tokens,
\* self.fragment_b_size, self.key_size as the constructors set them
InstanceAttributes ==
    [nonce_size |-> nonce_size, hmac_size |-> hmac_size, token_size |-> token_size,
     num_tokens |-> num_tokens, fragment_b_size |-> fragment_b_size, key_size |-> key_size]

\* mutant: the local variables are kept in one place for all calls, as
\* attributes of the shared instance would be
Frame_Shared(t) == 1

\* the local variables of a call are its own
Frame(t) == t

\* the parameters and local variables of the operations, not yet assigned
EmptyFrame ==
    [plaintext |-> <<>>, encryption_key |-> <<>>, authentication_key |-> <<>>,
     nonce |-> <<>>, ciphertext |-> <<>>, hmac_tag |-> <<>>,
     data |-> <<>>, canaries |-> [i \in 1..num_tokens |-> <<>>], marked |-> <<>>,
     fragment_a |-> <<>>, fragment_b |-> <<>>, ic_key |-> <<>>, phone_key |-> <<>>,
     binding_data |-> <<>>, hash_a |-> <<>>, hash_b |-> <<>>, first_hash |-> <<>>,
     input_material |-> <<>>, salt |-> <<>>, info |-> <<>>, prk |-> <<>>]

ThreadsStarted == "instance" \in DOMAIN store

\* the constructors run, once, before any call
ConstructShared ==
    /\ ~ThreadsStarted
    /\ pc = "idle"
    /\ result = NoResult
    /\ store' = [present |-> FALSE, instance |-> InstanceAttributes]
    /\ pc' = [t \in Threads |-> "idle"]
    /\ args' = [t \in Threads |-> [op |-> "none"]]
    /\ work' = [t \in Threads |-> EmptyFrame]
    /\ result' = [t \in Threads |-> NoResult]
    /\ log' = <<"__init__">>

\* the calls a thread makes, each with the values the generator will give it
ThreadCalls ==
    {[op |-> "encrypt", plaintext |-> Plaintext(n), encryption_key |-> EngineKey("K11"),
      authentication_key |-> EngineKey("K22"), drawn |-> Nonce(n)] : n \in 1..2}
    \cup {[op |-> "decrypt",
           ciphertext |-> encrypt(Plaintext(1), EngineKey("K11"), EngineKey("K22"), Nonce(1)).ciphertext,
           encryption_key |-> EngineKey("K11"), authentication_key |-> EngineKey(ak),
           nonce |-> Nonce(1),
           hmac_tag |-> encrypt(Plaintext(1), EngineKey("K11"), EngineKey("K22"), Nonce(1)).hmac_tag] :
             ak \in {"K22", "K11"}}
    \cup {[op |-> "inject_tokens", data |-> CanaryData(4), drawn |-> Canaries(seed)] : seed \in 1..2}
    \cup {[op |-> "create_fragment_b", fragment_a |-> Plain(<<n>>),
           ic_key |-> KeyBytes("K11"), phone_key |-> KeyBytes("K22")] : n \in 1..2}
    \cup {[op |-> "compute_merkle_root", fragment_a |-> Plain(<<n>>), fragment_b |-> Plain(<<7>>)] :
             n \in 1..2}
    \cup {[op |-> "_hkdf_derive", input_material |-> <<45>>, salt |-> salt, info |-> <<100>>] :
             salt \in {IcSalt, PhoneSalt}}

\* the first statement of each operation
FirstLabel(op) ==
    CASE op = "encrypt" -> "e_nonce"
      [] op = "decrypt" -> "d_verify"
      [] op = "inject_tokens" -> "i_canaries"
      [] op = "create_fragment_b" -> "b_binding"
      [] op = "compute_merkle_root" -> "m_hashes"
      [] op = "_hkdf_derive" -> "h_extract"

\* the parameters of the call, bound in its frame
Bound(call) ==
    [name \in DOMAIN EmptyFrame |->
        IF name \in DOMAIN call THEN call[name] ELSE EmptyFrame[name]]

ThreadCall(t, call) ==
    /\ ThreadsStarted
    /\ pc[t] = "idle"
    /\ args' = [args EXCEPT ![t] = call]
    /\ work' = [work EXCEPT ![Frame(t)] = Bound(call)]
    /\ pc' = [pc EXCEPT ![t] = FirstLabel(call.op)]
    /\ result' = [result EXCEPT ![t] = NoResult]
    /\ UNCHANGED <<store, log>>

\* one statement of thread t: the frame after it, and the label it goes to
ThreadAssign(t, from, locals, to) ==
    /\ ThreadsStarted
    /\ pc[t] = from
    /\ work' = [work EXCEPT ![Frame(t)] = locals]
    /\ pc' = [pc EXCEPT ![t] = to]
    /\ UNCHANGED <<args, store, log, result>>

\* the return or raise that ends the call of thread t
ThreadEnd(t, from, res) ==
    /\ ThreadsStarted
    /\ pc[t] = from
    /\ result' = [result EXCEPT ![t] = res]
    /\ pc' = [pc EXCEPT ![t] = "idle"]
    /\ UNCHANGED <<args, work, store, log>>

\* encrypt, lines 47-56
ThreadEncryptNonce(t) ==
    LET f == work[Frame(t)]
    IN  ThreadAssign(t, "e_nonce",
                     [f EXCEPT !.nonce = Slice(args[t].drawn, 0, store.instance.nonce_size)],
                     "e_cipher")

ThreadEncryptCipher(t) ==
    LET f == work[Frame(t)]
    IN  ThreadAssign(t, "e_cipher",
                     [f EXCEPT !.ciphertext = _aes_ctr_encrypt(f.plaintext, f.encryption_key, f.nonce)],
                     "e_tag")

ThreadEncryptTag(t) ==
    LET f == work[Frame(t)]
    IN  ThreadAssign(t, "e_tag",
                     [f EXCEPT !.hmac_tag = _compute_hmac(f.ciphertext, f.authentication_key)],
                     "e_return")

ThreadEncryptReturn(t) ==
    LET f == work[Frame(t)]
    IN  ThreadEnd(t, "e_return",
                  Returned("encrypt", [ciphertext |-> f.ciphertext, nonce |-> f.nonce,
                                       hmac_tag |-> f.hmac_tag]))

\* decrypt, lines 76-83
ThreadDecryptVerify(t) ==
    /\ ThreadsStarted
    /\ pc[t] = "d_verify"
    /\ LET f == work[Frame(t)]
       IN  IF _verify_hmac(f.ciphertext, f.authentication_key, f.hmac_tag)
           THEN ThreadAssign(t, "d_verify", f, "d_plain")
           ELSE ThreadEnd(t, "d_verify", Raised("decrypt", "AuthenticationFailure"))

ThreadDecryptReturn(t) ==
    LET f == work[Frame(t)]
    IN  ThreadEnd(t, "d_plain",
                  Returned("decrypt", _aes_ctr_decrypt(f.ciphertext, f.encryption_key, f.nonce)))

\* inject_tokens, lines 38-61
ThreadInjectCanaries(t) ==
    LET f == work[Frame(t)]
    IN  ThreadAssign(t, "i_canaries", [f EXCEPT !.canaries = args[t].drawn], "i_interleave")

ThreadInjectInterleave(t) ==
    LET f == work[Frame(t)]
    IN  ThreadAssign(t, "i_interleave",
                     [f EXCEPT !.marked = inject_tokens(f.data, f.canaries).marked],
                     "i_return")

ThreadInjectReturn(t) ==
    LET f == work[Frame(t)]
    IN  ThreadEnd(t, "i_return",
                  Returned("inject_tokens", [marked |-> f.marked,
                                             verification |-> Sha256(Join(f.canaries))]))

\* create_fragment_b, lines 41-51
ThreadBindingData(t) ==
    LET f == work[Frame(t)]
    IN  ThreadAssign(t, "b_binding",
                     [f EXCEPT !.binding_data = Sha512(f.fragment_a) \o Sha512(Plain(f.ic_key))
                                                    \o Sha512(Plain(f.phone_key))],
                     "b_return")

ThreadBindingReturn(t) ==
    LET f == work[Frame(t)]
    IN  ThreadEnd(t, "b_return",
                  Returned("create_fragment_b",
                           Slice(Sha512(f.binding_data), 0, store.instance.fragment_b_size)))

\* compute_merkle_root, lines 87-97
ThreadMerkleHashes(t) ==
    LET f == work[Frame(t)]
    IN  ThreadAssign(t, "m_hashes",
                     [f EXCEPT !.hash_a = Sha512(f.fragment_a), !.hash_b = Sha512(f.fragment_b)],
                     "m_first")

ThreadMerkleFirst(t) ==
    LET f == work[Frame(t)]
    IN  ThreadAssign(t, "m_first",
                     [f EXCEPT !.first_hash = Sha512(f.hash_a \o f.hash_b)],
                     "m_return")

ThreadMerkleReturn(t) ==
    LET f == work[Frame(t)]
    IN  ThreadEnd(t, "m_return", Returned("compute_merkle_root", Hex(Sha512(f.first_hash))))

\* _hkdf_derive, lines 115-121
ThreadHkdfExtract(t) ==
    LET f == work[Frame(t)]
    IN  ThreadAssign(t, "h_extract",
                     [f EXCEPT !.prk = Sha256(Plain(f.salt \o f.input_material))],
                     "h_return")

ThreadHkdfReturn(t) ==
    LET f == work[Frame(t)]
    IN  ThreadEnd(t, "h_return",
                  Returned("_hkdf_derive",
                           Slice(Sha256(f.prk \o Plain(f.info) \o <<B(1)>>), 0,
                                 store.instance.key_size)))

NextThreads ==
    \/ ConstructShared
    \/ \E t \in Threads, call \in ThreadCalls : ThreadCall(t, call)
    \/ \E t \in Threads : ThreadEncryptNonce(t)
    \/ \E t \in Threads : ThreadEncryptCipher(t)
    \/ \E t \in Threads : ThreadEncryptTag(t)
    \/ \E t \in Threads : ThreadEncryptReturn(t)
    \/ \E t \in Threads : ThreadDecryptVerify(t)
    \/ \E t \in Threads : ThreadDecryptReturn(t)
    \/ \E t \in Threads : ThreadInjectCanaries(t)
    \/ \E t \in Threads : ThreadInjectInterleave(t)
    \/ \E t \in Threads : ThreadInjectReturn(t)
    \/ \E t \in Threads : ThreadBindingData(t)
    \/ \E t \in Threads : ThreadBindingReturn(t)
    \/ \E t \in Threads : ThreadMerkleHashes(t)
    \/ \E t \in Threads : ThreadMerkleFirst(t)
    \/ \E t \in Threads : ThreadMerkleReturn(t)
    \/ \E t \in Threads : ThreadHkdfExtract(t)
    \/ \E t \in Threads : ThreadHkdfReturn(t)

SpecThreads == Init /\ [][NextThreads]_vars

\* what the call returns or raises when it runs alone
Alone(call) ==
    CASE call.op = "encrypt" ->
            Returned("encrypt", encrypt_call(call.plaintext, call.encryption_key,
                                             call.authentication_key, None, call.drawn))
      [] call.op = "decrypt" ->
            LET out == decrypt(call.ciphertext, call.encryption_key, call.authentication_key,
                               call.nonce, call.hmac_tag)
            IN  IF "error" \in DOMAIN out THEN Raised("decrypt", out.error)
                ELSE Returned("decrypt", out.value)
      [] call.op = "inject_tokens" ->
            Returned("inject_tokens", inject_tokens(call.data, call.drawn))
      [] call.op = "create_fragment_b" ->
            Returned("create_fragment_b",
                     create_fragment_b(call.fragment_a, call.ic_key, call.phone_key))
      [] call.op = "compute_merkle_root" ->
            Returned("compute_merkle_root", compute_merkle_root(call.fragment_a, call.fragment_b))
      [] call.op = "_hkdf_derive" ->
            Returned("_hkdf_derive", _hkdf_derive(call.input_material, call.salt, call.info))

ThreadFinished(t) == ThreadsStarted /\ pc[t] = "idle" /\ result[t].op # "none"

====
